---- MODULE Spec2Model ----
(***************************************************************************)
(* OTP authentication of the EasyMed portal: TwilioService (the demo OTP   *)
(* issuer / verifier and the phone normalizer, services/twilioService.ts)  *)
(* and RealAuthService (sessions, pending registrations, user directory    *)
(* and its localStorage copy, services/realAuthService.ts).                *)
(*                                                                         *)
(* Strings the code inspects character by character (phone numbers, the    *)
(* identifier of authenticateAdmin) are sequences of pieces: every digit   *)
(* is a piece of its own, "+" is a piece, and a run of other characters    *)
(* may be one piece.  Strings the code only compares or copies (names,     *)
(* passwords, OTP codes, error messages) are TLA+ strings.                 *)
(* Time is Date.now() in milliseconds.                                     *)
(*                                                                         *)
(* A handler is one atomic action where calls do not overlap.  Where they  *)
(* do, a call is a sequence of segments that ends at each await; calls     *)
(* holds the calls in flight and start the stores they met.                *)
(*                                                                         *)
(* page is the state of the LoginPage component (components/LoginPage.tsx) *)
(* between two of its event handlers.                                      *)
(***************************************************************************)
EXTENDS Integers, Sequences, FiniteSets, TLC

VARIABLES otpStore, otpSessions, pendingRegistrations, users, storage, now,
          last, issued, sentSince, calls, start, page

vars == <<otpStore, otpSessions, pendingRegistrations, users, storage, now,
          last, issued, sentSince, calls, start, page>>

(* ------------------------------ bounds -------------------------------- *)

\* the clock is read up to MaxMs milliseconds after the start and after the
\* expiry of a code issued at the start; up to MaxMs milliseconds pass between
\* two clock reads of one handler
MaxMs == 1

(* ------------------------- program constants -------------------------- *)

OTP_TTL == 5 * 60 * 1000
SESSION_TTL == 5 * 60 * 1000

adminPhones == { <<"+","9","1","9","0","6","0","3","2","8","1","1","9">> }
DEFAULT_ADMIN_PHONE == <<"+","9","1","9","0","6","0","3","2","8","1","1","9">>
PRAVEEN == <<"praveen@stellaronehealth.com">>
adminEmails == { PRAVEEN, <<"admin@easymed.in">>, <<"admin@gmail.com">> }
adminPasswords == { "dummy123", "admin123", "easymed2025" }

ERR_INVALID_PHONE == "Invalid phone number format"
ERR_NO_SESSION == "No OTP session found. Please request a new OTP."
ERR_SESSION_EXPIRED == "OTP session expired. Please request a new OTP."
ERR_OTP_EXPIRED == "OTP session expired. Please request a new OTP."
ERR_INVALID_OTP == "Invalid OTP"
ERR_SEND_FAILED == "Failed to send OTP"
ERR_USER_EXISTS == "User already exists with this phone number"
ERR_ACCESS_DENIED == "Access denied. Contact system administrator."
ERR_INVALID_PASSWORD == "Invalid password"

(* ------------------------------ strings ------------------------------- *)

Digits == {"0","1","2","3","4","5","6","7","8","9"}
\* null / undefined / the empty string of a character string
Null == << >>
\* undefined of an opaque string field
Undefined == "undefined"

\* mutant: nothing is stripped
StripNonDigits_Keep(s) == s

\* s.replace(/\D/g, '')
StripNonDigits(s) == SelectSeq(s, LAMBDA c : c \in Digits)

\* s.startsWith(pre)
StartsWith(s, pre) == Len(s) >= Len(pre) /\ SubSeq(s, 1, Len(pre)) = pre

\* mutant: s.slice(4)
Slice4_Head(s) == IF Len(s) <= 4 THEN Null ELSE SubSeq(s, 5, Len(s))

\* s.slice(-4)
Slice4(s) == IF Len(s) <= 4 THEN s ELSE SubSeq(s, Len(s) - 3, Len(s))

(* -------------------------- TwilioService ----------------------------- *)

\* the prefix test of the 10-digit form
LocalPrefixOK(cleaned) == StartsWith(cleaned, <<"6","7","8","9">>)

\* mutant: every number of 12 digits is taken as it is
formatPhoneNumber_Lenient(phoneNumber) ==
    LET cleaned == StripNonDigits(phoneNumber) IN
    IF Len(cleaned) = 12 THEN <<"+">> \o cleaned ELSE Null

formatPhoneNumber(phoneNumber) ==
    LET cleaned == StripNonDigits(phoneNumber) IN
    IF Len(cleaned) = 10 /\ LocalPrefixOK(cleaned)
    THEN <<"+","9","1">> \o cleaned
    ELSE IF Len(cleaned) = 12 /\ StartsWith(cleaned, <<"9","1">>)
    THEN <<"+">> \o cleaned
    ELSE IF Len(cleaned) = 13 /\ StartsWith(cleaned, <<"0","9","1">>)
    THEN <<"+">> \o SubSeq(cleaned, 2, Len(cleaned))
    ELSE Null

\* mutant: the issuer refuses every number
isValidPhoneNumber_Never(phoneNumber) == FALSE

\* mutant: /^\+[1-9]\d{1,10}$/
isValidPhoneNumber_Short(phoneNumber) ==
    /\ Len(phoneNumber) >= 3
    /\ Len(phoneNumber) <= 12
    /\ phoneNumber[1] = "+"
    /\ phoneNumber[2] \in Digits \ {"0"}
    /\ \A i \in 3..Len(phoneNumber) : phoneNumber[i] \in Digits

\* /^\+[1-9]\d{1,14}$/
isValidPhoneNumber(phoneNumber) ==
    /\ Len(phoneNumber) >= 3
    /\ Len(phoneNumber) <= 16
    /\ phoneNumber[1] = "+"
    /\ phoneNumber[2] \in Digits \ {"0"}
    /\ \A i \in 3..Len(phoneNumber) : phoneNumber[i] \in Digits

\* Map.delete
MapDelete(m, k) == [q \in DOMAIN m \ {k} |-> m[q]]
\* Map.set
MapSet(m, k, v) == (k :> v) @@ m

\* mutant: a send keeps the entry a phone already has
TwilioSendOTP_KeepFirst(store, phoneNumber, otp, t) ==
    IF ~isValidPhoneNumber(phoneNumber)
    THEN [status |-> "failed", errorMessage |-> ERR_INVALID_PHONE, store |-> store]
    ELSE [status |-> "pending", errorMessage |-> Undefined,
          store |-> IF phoneNumber \in DOMAIN store THEN store
                    ELSE MapSet(store, phoneNumber, [code |-> otp, expiresAt |-> t + OTP_TTL])]

\* mutant: a code lives for 10 minutes
TwilioSendOTP_Long(store, phoneNumber, otp, t) ==
    IF ~isValidPhoneNumber(phoneNumber)
    THEN [status |-> "failed", errorMessage |-> ERR_INVALID_PHONE, store |-> store]
    ELSE [status |-> "pending", errorMessage |-> Undefined,
          store |-> MapSet(store, phoneNumber, [code |-> otp, expiresAt |-> t + 2 * OTP_TTL])]

\* TwilioService.sendOTP with the generated code otp, at clock value t
TwilioSendOTP(store, phoneNumber, otp, t) ==
    IF ~isValidPhoneNumber(phoneNumber)
    THEN [status |-> "failed", errorMessage |-> ERR_INVALID_PHONE, store |-> store]
    ELSE [status |-> "pending", errorMessage |-> Undefined,
          store |-> MapSet(store, phoneNumber, [code |-> otp, expiresAt |-> t + OTP_TTL])]

\* mutant: a code never expires
OTPExpired_Never(entry, t) == FALSE

\* mutant: a code expires one millisecond early
OTPExpired_Early(entry, t) == t >= entry.expiresAt

\* Date.now() > session.expiresAt
OTPExpired(entry, t) == t > entry.expiresAt

\* mutant: an approved code stays in the store
ConsumeOTP_Keep(store, phoneNumber) == store

\* the store after an approved verification
ConsumeOTP(store, phoneNumber) == MapDelete(store, phoneNumber)

\* TwilioService.verifyOTP at clock value t
TwilioVerifyOTP(store, phoneNumber, code, t) ==
    IF phoneNumber \notin DOMAIN store \/ OTPExpired(store[phoneNumber], t)
    THEN [status |-> "failed", valid |-> FALSE, errorMessage |-> ERR_OTP_EXPIRED,
          store |-> MapDelete(store, phoneNumber)]
    ELSE IF store[phoneNumber].code # code
    THEN [status |-> "failed", valid |-> FALSE, errorMessage |-> ERR_INVALID_OTP,
          store |-> store]
    ELSE [status |-> "approved", valid |-> TRUE, errorMessage |-> Undefined,
          store |-> ConsumeOTP(store, phoneNumber)]

(* ------------------------- RealAuthService ---------------------------- *)

\* an AuthResult; user is << >> or <<the user>>
Result(success, error, otpSent, user) ==
    [success |-> success, error |-> error, otpSent |-> otpSent, user |-> user]

Fail(error) == Result(FALSE, error, FALSE, << >>)

\* error.message || fallback
OrElse(message, fallback) == IF message = Undefined \/ message = "" THEN fallback ELSE message

\* mutant: a session never times out
SessionTimedOut_Never(session, t) == FALSE

\* Date.now() - session.timestamp > 5 * 60 * 1000
SessionTimedOut(session, t) == t - session.timestamp > SESSION_TTL

\* mutant: only the user inserted last is compared
findUserByPhone_LastOnly(us, phone) ==
    IF Len(us) > 0 /\ us[Len(us)].phone = phone THEN Len(us) ELSE 0

\* mutant: the lookup by phone finds nobody
findUserByPhone_None(us, phone) == 0

\* index of the first user (in Map insertion order) with that phone, 0 if none
findUserByPhone(us, phone) ==
    LET hits == {i \in 1..Len(us) : us[i].phone = phone} IN
    IF hits = {} THEN 0 ELSE CHOOSE i \in hits : \A j \in hits : i <= j

\* mutant: the lookup by email finds nobody
findUserByEmail_None(us, email) == 0

\* index of the first user with that email, 0 if none
findUserByEmail(us, email) ==
    LET hits == {i \in 1..Len(us) : us[i].email = email} IN
    IF hits = {} THEN 0 ELSE CHOOSE i \in hits : \A j \in hits : i <= j

\* mutant: the lookup by id returns the first user of the directory
getUserById_First(us, userId) == IF Len(us) > 0 THEN 1 ELSE 0

\* index of the user stored under that id, 0 if none (Map.get)
getUserById(us, userId) ==
    LET hits == {i \in 1..Len(us) : us[i].id = userId} IN
    IF hits = {} THEN 0 ELSE CHOOSE i \in hits : TRUE

\* this.users.set(userId, user): an existing key keeps its position
UsersSet(us, user) ==
    LET i == getUserById(us, user.id) IN
    IF i = 0 THEN Append(us, user) ELSE [us EXCEPT ![i] = user]

\* Date.prototype.toISOString, read back by new Date(string)
toISOString(t) == [sec |-> t \div 1000, ms |-> t % 1000]
parseDate(iso) == iso.sec * 1000 + iso.ms

UserFields == {"id", "name", "email", "phone", "userType", "specialty", "village",
               "organization", "isVerified", "abhaProfile", "createdAt", "lastLogin"}
DateFields == {"createdAt", "lastLogin"}

IsUndefined(f, v) ==
    IF f \in {"email", "phone"} THEN v = Null
    ELSE IF f \in {"specialty", "village", "organization", "abhaProfile"}
    THEN v = Undefined
    ELSE FALSE

\* JSON.stringify of one user: undefined properties are dropped, dates become strings
SerializeUser(u) ==
    [f \in {g \in UserFields : ~IsUndefined(g, u[g])} |->
        IF f \in DateFields THEN toISOString(u[f]) ELSE u[f]]

\* one parsed user with its dates converted back
DeserializeUser(o) ==
    [f \in UserFields |->
        IF f \in DOMAIN o
        THEN (IF f \in DateFields THEN parseDate(o[f]) ELSE o[f])
        ELSE (IF f \in {"email", "phone"} THEN Null ELSE Undefined)]

\* mutant: the write to the storage is lost
saveUsersToStorage_Lost(us) == storage

\* the value saveUsersToStorage writes under 'easymed_users': a string that
\* JSON.parse accepts, holding one object per user in insertion order
saveUsersToStorage(us) ==
    [present |-> TRUE, parses |-> TRUE,
     entries |-> [i \in 1..Len(us) |-> SerializeUser(us[i])]]

\* localStorage.getItem returns null
NoItem == [present |-> FALSE, parses |-> TRUE, entries |-> << >>]

\* a stored string that JSON.parse rejects
Unparseable == [present |-> TRUE, parses |-> FALSE, entries |-> << >>]

\* a property of the stored object whose value is null
NullEntry == [null |-> TRUE]

\* the directory loadUsersFromStorage builds: nothing if the item is missing
\* or JSON.parse throws; else the entries are converted and inserted one by
\* one, and the exception raised by a null entry ends the loop, the users
\* inserted before it staying in the Map
loadUsersFromStorage(st) ==
    IF ~st.present \/ ~st.parses THEN << >>
    ELSE LET bad == {i \in 1..Len(st.entries) : st.entries[i] = NullEntry}
             n == IF bad = {} THEN Len(st.entries)
                  ELSE (CHOOSE i \in bad : \A j \in bad : i <= j) - 1
         IN [i \in 1..n |-> DeserializeUser(st.entries[i])]

\* mutant: a user is created verified
createUser_Verified(us, registration, t, r) ==
    LET user == [id |-> [ts |-> t, rnd |-> r],
                 name |-> registration.name,
                 email |-> registration.email,
                 phone |-> registration.phone,
                 userType |-> registration.userType,
                 specialty |-> registration.specialty,
                 village |-> registration.village,
                 organization |-> registration.organization,
                 isVerified |-> TRUE,
                 abhaProfile |-> Undefined,
                 createdAt |-> t,
                 lastLogin |-> t]
    IN [user |-> user, users |-> UsersSet(us, user)]

\* createUser at clock value t with random suffix r
createUser(us, registration, t, r) ==
    LET user == [id |-> [ts |-> t, rnd |-> r],
                 name |-> registration.name,
                 email |-> registration.email,
                 phone |-> registration.phone,
                 userType |-> registration.userType,
                 specialty |-> registration.specialty,
                 village |-> registration.village,
                 organization |-> registration.organization,
                 isVerified |-> FALSE,
                 abhaProfile |-> Undefined,
                 createdAt |-> t,
                 lastLogin |-> t]
    IN [user |-> user, users |-> UsersSet(us, user)]

\* the registration of the default patient user
DefaultPatient(formattedPhone) ==
    [name |-> <<"User ">> \o Slice4(formattedPhone), email |-> Null,
     phone |-> formattedPhone, userType |-> "patient",
     specialty |-> Undefined, village |-> Undefined, organization |-> Undefined]

\* the registration of an administrator created by the email login
AdminRegistration(identifier) ==
    [name |-> IF identifier = PRAVEEN THEN <<"Praveen - StellarOne Health">> ELSE <<"Admin User">>,
     email |-> identifier,
     phone |-> DEFAULT_ADMIN_PHONE,
     userType |-> "admin",
     specialty |-> Undefined, village |-> Undefined,
     organization |-> IF identifier = PRAVEEN THEN "StellarOne Health" ELSE "EasyMed"]

\* what a handler leaves behind: its result, the verifier's status if it was
\* called, the key it worked on and the stores
Outcome(res, vres, phone, os, ss, pr, us, st, t) ==
    [res |-> res, vres |-> vres, phone |-> phone, otpStore |-> os, otpSessions |-> ss,
     pendingRegistrations |-> pr, users |-> us, storage |-> st, now |-> t]

Unchanged(res, phone) ==
    Outcome(res, "not_called", phone, otpStore, otpSessions, pendingRegistrations,
            users, storage, now)

\* RealAuthService.sendOTP with the code otp the issuer generates; d milliseconds
\* pass before the session is stamped; pr is the pending registrations of the caller
sendOTP(phoneNumber, pr, otp, d) ==
    LET formattedPhone == formatPhoneNumber(phoneNumber) IN
    IF formattedPhone = Null
    THEN Outcome(Fail(ERR_INVALID_PHONE), "not_called", Null, otpStore, otpSessions,
                 pr, users, storage, now)
    ELSE LET result == TwilioSendOTP(otpStore, formattedPhone, otp, now) IN
         IF result.status = "pending"
         THEN Outcome(Result(TRUE, Undefined, TRUE, << >>), "not_called", formattedPhone,
                      result.store,
                      MapSet(otpSessions, formattedPhone,
                             [phone |-> formattedPhone, timestamp |-> now + d]),
                      pr, users, storage, now + d)
         ELSE Outcome(Fail(OrElse(result.errorMessage, ERR_SEND_FAILED)), "not_called",
                      formattedPhone, result.store, otpSessions, pr, users, storage, now)

\* mutant: an approved verification leaves the session in place
CleanUpSession_Keep(sessions, phone) == sessions

\* the sessions after an approved verification
CleanUpSession(sessions, phone) == MapDelete(sessions, phone)

\* RealAuthService.verifyOTPAndLogin; d milliseconds pass between the session
\* check and the verifier's clock read, r is the random suffix of a new id
verifyOTPAndLogin(phoneNumber, otp, d, r) ==
    LET formattedPhone == formatPhoneNumber(phoneNumber) IN
    IF formattedPhone = Null
    THEN Unchanged(Fail(ERR_INVALID_PHONE), Null)
    ELSE IF formattedPhone \notin DOMAIN otpSessions
    THEN Unchanged(Fail(ERR_NO_SESSION), formattedPhone)
    ELSE IF SessionTimedOut(otpSessions[formattedPhone], now)
    THEN Outcome(Fail(ERR_SESSION_EXPIRED), "not_called", formattedPhone, otpStore,
                 MapDelete(otpSessions, formattedPhone), pendingRegistrations,
                 users, storage, now)
    ELSE
    LET verificationResult == TwilioVerifyOTP(otpStore, formattedPhone, otp, now + d) IN
    IF ~verificationResult.valid
    THEN Outcome(Fail(OrElse(verificationResult.errorMessage, ERR_INVALID_OTP)),
                 verificationResult.status, formattedPhone, verificationResult.store,
                 otpSessions, pendingRegistrations, users, storage, now + d)
    ELSE
    LET sessions2 == CleanUpSession(otpSessions, formattedPhone)
        found == findUserByPhone(users, formattedPhone)
        hasPending == formattedPhone \in DOMAIN pendingRegistrations
        created == IF hasPending
                   THEN createUser(users, pendingRegistrations[formattedPhone], now + d, r)
                   ELSE createUser(users, DefaultPatient(formattedPhone), now + d, r)
        users2 == IF found # 0 THEN users ELSE created.users
        pending2 == IF found = 0 /\ hasPending
                    THEN MapDelete(pendingRegistrations, formattedPhone)
                    ELSE pendingRegistrations
        idx == IF found # 0 THEN found ELSE getUserById(users2, created.user.id)
        users3 == [users2 EXCEPT ![idx].lastLogin = now + d]
    IN Outcome(Result(TRUE, Undefined, FALSE, <<users3[idx]>>), verificationResult.status,
               formattedPhone, verificationResult.store, sessions2, pending2, users3,
               saveUsersToStorage(users3), now + d)

\* RealAuthService.registerUser
registerUser(registration, otp, d) ==
    LET formattedPhone == formatPhoneNumber(registration.phone) IN
    IF formattedPhone = Null
    THEN Unchanged(Fail(ERR_INVALID_PHONE), Null)
    ELSE IF findUserByPhone(users, formattedPhone) # 0
    THEN Unchanged(Fail(ERR_USER_EXISTS), formattedPhone)
    ELSE sendOTP(formattedPhone,
                 MapSet(pendingRegistrations, formattedPhone,
                        [registration EXCEPT !.phone = formattedPhone]),
                 otp, d)

\* /^\+?[1-9]\d{1,14}$/.test(identifier.replace(/\D/g, ''))
LooksLikePhone(identifier) ==
    LET cleaned == StripNonDigits(identifier) IN
    /\ Len(cleaned) >= 2
    /\ Len(cleaned) <= 15
    /\ cleaned[1] # "0"

\* RealAuthService.authenticateAdmin
authenticateAdmin(identifier, password, otp, d, r) ==
    IF LooksLikePhone(identifier)
    THEN LET formattedPhone == formatPhoneNumber(identifier) IN
         IF formattedPhone = Null
         THEN Unchanged(Fail(ERR_INVALID_PHONE), Null)
         ELSE IF formattedPhone \notin adminPhones
         THEN Unchanged(Fail(ERR_ACCESS_DENIED), formattedPhone)
         ELSE sendOTP(formattedPhone, pendingRegistrations, otp, d)
    ELSE IF identifier \notin adminEmails
    THEN Unchanged(Fail(ERR_ACCESS_DENIED), Null)
    ELSE IF password = "" \/ password \notin adminPasswords
    THEN Unchanged(Fail(ERR_INVALID_PASSWORD), Null)
    ELSE
    LET found == findUserByEmail(users, identifier)
        created == createUser(users, AdminRegistration(identifier), now, r)
        users2 == IF found # 0 THEN users ELSE created.users
        idx == IF found # 0 THEN found ELSE getUserById(users2, created.user.id)
        users3 == [users2 EXCEPT ![idx].lastLogin = now]
    IN Outcome(Result(TRUE, Undefined, FALSE, <<users3[idx]>>), "not_called", Null,
               otpStore, otpSessions, pendingRegistrations, users3,
               saveUsersToStorage(users3), now)

\* RealAuthService.linkABHAProfile; the result's success is the returned boolean
linkABHAProfile(userId, abhaProfile) ==
    LET idx == getUserById(users, userId) IN
    IF idx = 0
    THEN Unchanged(Fail(Undefined), Null)
    ELSE LET users2 == [users EXCEPT ![idx].abhaProfile = abhaProfile,
                                     ![idx].isVerified = TRUE]
         IN Outcome(Result(TRUE, Undefined, FALSE, << >>), "not_called", Null, otpStore,
                    otpSessions, pendingRegistrations, users2,
                    saveUsersToStorage(users2), now)

(* ------------------------------ inputs -------------------------------- *)

RAW_TEN == <<"9","8","7","6","5","4","3","2","1","0">>
RAW_TWELVE == <<"9","1","9","8","7","6","5","4","3","2","1","0">>
RAW_ADMIN == <<"+","9","1","9","0","6","0","3","2","8","1","1","9">>
RAW_ADMIN13 == <<"0","9","1","9","0","6","0","3","2","8","1","1","9">>
CANON_TEN == <<"+","9","1","9","8","7","6","5","4","3","2","1","0">>

RawPhones == {RAW_TEN, RAW_TWELVE, RAW_ADMIN, RAW_ADMIN13}
PatientPhones == {RAW_TEN, RAW_TWELVE}
Emails == {<<"admin@easymed.in">>, PRAVEEN, <<"user@example.com">>}
Identifiers == RawPhones \cup Emails
\* "" is a missing password
Passwords == {"admin123", "wrongpass", ""}
\* codes the issuer may generate and a caller may submit
Codes == {"100000", "999999"}
NoCode == ""
\* random suffixes of a user id
Rands == {"k3x", "9qz", "p0m", "z1d"}
Profiles == {"abha-1"}
UnknownId == [ts |-> 0, rnd |-> "unknown"]

Registrations ==
    { [name |-> <<"Dr Rao">>, email |-> Null, phone |-> ph, userType |-> "doctor",
       specialty |-> "cardiology", village |-> Undefined, organization |-> Undefined]
        : ph \in RawPhones }
    \cup
    { [name |-> <<"Mallory">>, email |-> <<"admin@easymed.in">>, phone |-> ph,
       userType |-> "patient", specialty |-> Undefined, village |-> Undefined,
       organization |-> Undefined] : ph \in {RAW_TWELVE} }

\* clock values shortly after the start and around the expiry of a code issued then
Instants == {k * OTP_TTL + e : k \in {0, 1}, e \in 0..MaxMs}
\* the start and one later clock value
CoarseInstants == {0, OTP_TTL}
\* the delays inside a handler that keep the clock within the instants clock
Delays(clock) == {d \in 0..MaxMs : now + d \in clock}

(* --------------------------- the state machine ------------------------ *)

\* the record of a call: its key, the submitted code, the code stored for the
\* key when the call began, and what it returned
Call(op, phone, code, out) ==
    [op |-> op, phone |-> phone, code |-> code,
     stored |-> IF phone \in DOMAIN otpStore THEN otpStore[phone].code ELSE NoCode,
     success |-> out.res.success, error |-> out.res.error, vres |-> out.vres]

NoCall(op) ==
    [op |-> op, phone |-> Null, code |-> NoCode, stored |-> NoCode, success |-> TRUE,
     error |-> Undefined, vres |-> "not_called"]

\* the state of a LoginPage that has just been mounted (the useState
\* initial values); message is empty or the text shown, handler the event
\* handler that ran last, loggedIn whether onLogin was called
LoginPageInit ==
    [activeTab |-> "patient", loginMethod |-> "phone", phoneNumber |-> << >>,
     email |-> << >>, password |-> "", otp |-> "", showOTP |-> FALSE,
     message |-> << >>, handler |-> "none", loggedIn |-> FALSE]

Init ==
    /\ otpStore = << >>
    /\ otpSessions = << >>
    /\ pendingRegistrations = << >>
    /\ storage = NoItem
    /\ users = loadUsersFromStorage(NoItem)
    /\ now = 0
    /\ last = NoCall("constructor")
    /\ issued = << >>
    /\ sentSince = {}
    /\ calls = << >>
    /\ start = << >>
    /\ page = LoginPageInit

\* the program state a handler leaves behind
Apply(out) ==
    /\ otpStore' = out.otpStore
    /\ otpSessions' = out.otpSessions
    /\ pendingRegistrations' = out.pendingRegistrations
    /\ users' = out.users
    /\ storage' = out.storage
    /\ now' = out.now
    /\ UNCHANGED <<calls, start, page>>

\* history of a send: the unconsumed code it replaced and the code it issued
SendHistory(out, otp) ==
    IF out.res.success
    THEN /\ issued' = MapSet(issued, out.phone,
                             [prior |-> IF out.phone \in DOMAIN otpStore
                                        THEN otpStore[out.phone].code ELSE NoCode,
                              latest |-> otp])
         /\ sentSince' = sentSince \cup {out.phone}
    ELSE UNCHANGED <<issued, sentSince>>

SendOTP(phoneNumber, otp, d) ==
    LET out == sendOTP(phoneNumber, pendingRegistrations, otp, d) IN
    /\ Apply(out)
    /\ last' = Call("sendOTP", out.phone, NoCode, out)
    /\ SendHistory(out, otp)

VerifyOTPAndLogin(phoneNumber, otp, d, r) ==
    LET out == verifyOTPAndLogin(phoneNumber, otp, d, r) IN
    /\ Apply(out)
    /\ last' = Call("verifyOTPAndLogin", out.phone, otp, out)
    /\ sentSince' = IF out.res.success
                       \/ (out.res.error = ERR_SESSION_EXPIRED /\ out.vres = "not_called")
                    THEN sentSince \ {out.phone} ELSE sentSince
    /\ UNCHANGED issued

RegisterUser(registration, otp, d) ==
    LET out == registerUser(registration, otp, d) IN
    /\ Apply(out)
    /\ last' = Call("registerUser", out.phone, NoCode, out)
    /\ SendHistory(out, otp)

AuthenticateAdmin(identifier, password, otp, d, r) ==
    LET out == authenticateAdmin(identifier, password, otp, d, r) IN
    /\ Apply(out)
    /\ last' = Call("authenticateAdmin", out.phone, NoCode, out)
    /\ IF out.res.otpSent THEN SendHistory(out, otp) ELSE UNCHANGED <<issued, sentSince>>

LinkABHAProfile(userId, abhaProfile) ==
    LET out == linkABHAProfile(userId, abhaProfile) IN
    /\ Apply(out)
    /\ last' = Call("linkABHAProfile", Null, NoCode, out)
    /\ UNCHANGED <<issued, sentSince>>

\* RealAuthService.clearAllData; the OTP store of TwilioService is not touched
ClearAllData ==
    /\ users' = << >>
    /\ pendingRegistrations' = << >>
    /\ otpSessions' = << >>
    /\ storage' = NoItem
    /\ last' = NoCall("clearAllData")
    /\ UNCHANGED <<otpStore, now, issued, sentSince, calls, start, page>>

\* a page load: both singletons are constructed anew, the directory is hydrated
Constructor ==
    /\ otpStore' = << >>
    /\ otpSessions' = << >>
    /\ pendingRegistrations' = << >>
    /\ users' = loadUsersFromStorage(storage)
    /\ last' = NoCall("constructor")
    /\ issued' = << >>
    /\ sentSince' = {}
    /\ page' = LoginPageInit
    /\ UNCHANGED <<storage, now, calls, start>>

\* time passes between two calls
Tick(clock) ==
    /\ \E t \in clock : t > now /\ now' = t
    /\ last' = NoCall("tick")
    /\ UNCHANGED <<otpStore, otpSessions, pendingRegistrations, users, storage,
                   issued, sentSince, calls, start, page>>

UserIds == {users[i].id : i \in 1..Len(users)} \cup {UnknownId}

\* the random suffix of the next id: one that no user of the directory carries
\* (ids do not collide); of the unused suffixes the first in a fixed order
RandOrder == <<"k3x", "9qz", "p0m", "z1d">>
FreshRands ==
    LET free == {i \in 1..Len(RandOrder) :
                    \A k \in 1..Len(users) : users[k].id.rnd # RandOrder[i]}
    IN {RandOrder[i] : i \in {j \in free : \A k \in free : j <= k}}

\* the OTP life cycle of the patient phones on a clock that passes the expiry
Next ==
    \/ \E ph \in PatientPhones, c \in Codes, d \in Delays(Instants) : SendOTP(ph, c, d)
    \/ \E ph \in PatientPhones, c \in Codes, d \in Delays(Instants), r \in FreshRands :
          VerifyOTPAndLogin(ph, c, d, r)
    \/ ClearAllData
    \/ Constructor
    \/ Tick(Instants)

Spec == Init /\ [][Next]_vars

\* the administrator login next to a registration that claims an administrator's
\* email, on a clock that stays short of any expiry
NextAdmin ==
    \/ \E id \in Identifiers, pw \in Passwords, d \in Delays(CoarseInstants), r \in FreshRands :
          AuthenticateAdmin(id, pw, "100000", d, r)
    \/ \E reg \in {g \in Registrations : g.name = <<"Mallory">>}, d \in Delays(CoarseInstants) :
          RegisterUser(reg, "100000", d)
    \/ \E ph \in {RAW_TWELVE, RAW_ADMIN}, c \in Codes, d \in Delays(CoarseInstants), r \in FreshRands :
          VerifyOTPAndLogin(ph, c, d, r)
    \/ ClearAllData
    \/ Constructor
    \/ Tick(CoarseInstants)

SpecAdmin == Init /\ [][NextAdmin]_vars

\* registration and the resolution of the user at login
NextRegister ==
    \/ \E reg \in Registrations, d \in Delays(CoarseInstants) : RegisterUser(reg, "100000", d)
    \/ \E ph \in {RAW_TWELVE, RAW_ADMIN}, d \in Delays(CoarseInstants) : SendOTP(ph, "100000", d)
    \/ \E ph \in {RAW_TWELVE, RAW_ADMIN}, c \in Codes, d \in Delays(CoarseInstants), r \in FreshRands :
          VerifyOTPAndLogin(ph, c, d, r)
    \/ \E r \in FreshRands : AuthenticateAdmin(<<"admin@easymed.in">>, "admin123", "100000", 0, r)
    \/ ClearAllData
    \/ Constructor
    \/ Tick(CoarseInstants)

SpecRegister == Init /\ [][NextRegister]_vars

(* ------------------------------ claims -------------------------------- *)

IsVerify == last.op = "verifyOTPAndLogin" /\ last.phone # Null

\* the last call was a verify that submitted the unconsumed code which the
\* latest send for that phone replaced
VerifiedWithPrior ==
    /\ IsVerify
    /\ last.phone \in DOMAIN issued
    /\ issued[last.phone].prior # NoCode
    /\ last.code = issued[last.phone].prior

\* C1 as stated: once a second send for a phone has succeeded while the first
\* code was unconsumed, a verify with the first code is never approved,
\* whatever the two codes are.
C1_AnyCodes == VerifiedWithPrior => (~last.success /\ last.vres # "approved")

\* C1 amended: once a second send for a phone has succeeded while the first
\* code was unconsumed and the second code differs from the first, a verify
\* with the first code (before any further send) is not approved.
C1_DistinctCodes ==
    (VerifiedWithPrior /\ issued[last.phone].latest # issued[last.phone].prior)
        => (~last.success /\ last.vres # "approved")

C1_Witness ==
    /\ VerifiedWithPrior
    /\ issued[last.phone].latest # issued[last.phone].prior
    /\ last.vres = "failed"
    /\ last.error = ERR_INVALID_OTP

\* C2: a code is single-use.  After an approved verification of a phone the
\* OTP entry and the verification session of the phone are gone, and the same
\* verify call repeated is not approved: the verifier finds no entry and
\* verifyOTPAndLogin finds no session.
C2_SingleUse ==
    (IsVerify /\ last.success) =>
        /\ last.vres = "approved"
        /\ last.phone \notin DOMAIN otpStore
        /\ last.phone \notin DOMAIN otpSessions
        /\ LET again == TwilioVerifyOTP(otpStore, last.phone, last.code, now) IN
              /\ ~again.valid
              /\ again.status = "failed"
              /\ again.store = otpStore
        /\ \A d \in Delays(Instants), r \in FreshRands :
              LET out == verifyOTPAndLogin(last.phone, last.code, d, r) IN
              /\ out.res = Fail(ERR_NO_SESSION)
              /\ out.users = users
              /\ out.otpStore = otpStore

C2_Witness == IsVerify /\ last.success /\ last.code = last.stored /\ Len(users) > 0

\* what the verifier returns, without the store
Verdict(v) == <<v.status, v.valid, v.errorMessage>>

\* C3 as stated: a verify after the expiry of the entry returns Expired even
\* when the code matches and deletes the entry, and a later verify returns
\* NoEntry, an outcome distinct from Expired.
C3_DistinctNoEntry ==
    \A p \in DOMAIN otpStore :
        now > otpStore[p].expiresAt =>
            LET v1 == TwilioVerifyOTP(otpStore, p, otpStore[p].code, now)
                v2 == TwilioVerifyOTP(v1.store, p, otpStore[p].code, now)
            IN /\ ~v1.valid
               /\ p \notin DOMAIN v1.store
               /\ ~v2.valid
               /\ Verdict(v2) # Verdict(v1)

\* C3 amended: a verify after the expiry of the entry fails with the message
\* "OTP session expired. Please request a new OTP." even when the code
\* matches, and the verifier deletes the entry; a later verify finds no entry
\* and returns the very same failure (the verifier has no separate NoEntry
\* outcome).  verifyOTPAndLogin returns that message whether its own session
\* timed out or the verifier found the code expired.
C3_ExpiredThenSame ==
    \A p \in DOMAIN otpStore :
        now > otpStore[p].expiresAt =>
            LET v1 == TwilioVerifyOTP(otpStore, p, otpStore[p].code, now)
                v2 == TwilioVerifyOTP(v1.store, p, otpStore[p].code, now)
            IN /\ ~v1.valid
               /\ v1.status = "failed"
               /\ v1.errorMessage = "OTP session expired. Please request a new OTP."
               /\ p \notin DOMAIN v1.store
               /\ Verdict(v2) = Verdict(v1)
               /\ v2.store = v1.store
               /\ \A d \in Delays(Instants), r \in FreshRands :
                     LET out == verifyOTPAndLogin(p, otpStore[p].code, d, r) IN
                     /\ ~out.res.success
                     /\ p \in DOMAIN otpSessions =>
                           out.res.error = "OTP session expired. Please request a new OTP."
                     /\ out.users = users

\* the verifier was called with the matching code of an entry and refused it
C3_Witness ==
    /\ IsVerify
    /\ last.stored # NoCode
    /\ last.code = last.stored
    /\ last.vres = "failed"
    /\ last.error = ERR_OTP_EXPIRED
    /\ last.phone \notin DOMAIN otpStore
    /\ last.phone \in DOMAIN otpSessions

\* C4: verifyOTPAndLogin succeeds only if a session exists for the normalized
\* phone that is not older than 5 minutes and the submitted code equals the
\* stored code of an entry that has not expired; with a session older than
\* 5 minutes it deletes the session and fails with the session-expired
\* message without calling the verifier (the OTP store is left as it is).
C4_SessionGate ==
    \A ph \in PatientPhones, c \in Codes, d \in Delays(Instants), r \in FreshRands :
        LET p == formatPhoneNumber(ph)
            out == verifyOTPAndLogin(ph, c, d, r)
        IN /\ out.res.success =>
                /\ p # Null
                /\ p \in DOMAIN otpSessions
                /\ now - otpSessions[p].timestamp <= 5 * 60 * 1000
                /\ p \in DOMAIN otpStore
                /\ otpStore[p].code = c
                /\ now + d <= otpStore[p].expiresAt
                /\ out.vres = "approved"
           /\ (p \in DOMAIN otpSessions /\ now - otpSessions[p].timestamp > 5 * 60 * 1000) =>
                /\ out.res = Fail("OTP session expired. Please request a new OTP.")
                /\ p \notin DOMAIN out.otpSessions
                /\ out.vres = "not_called"
                /\ out.otpStore = otpStore
                /\ out.users = users
                /\ out.pendingRegistrations = pendingRegistrations

\* a verify with the matching code of a stored entry was turned away at the
\* session check
C4_Witness ==
    /\ IsVerify
    /\ ~last.success
    /\ last.vres = "not_called"
    /\ last.error = ERR_SESSION_EXPIRED
    /\ last.stored # NoCode
    /\ last.code = last.stored
    /\ last.phone \in DOMAIN otpStore
    /\ last.phone \notin DOMAIN otpSessions

\* C5: verifyOTPAndLogin for a phone for which no send has succeeded since the
\* start, the last successful verify or the last session timeout fails with
\* the session-not-found message for every code and changes no store.
C5_NoSession ==
    \A ph \in PatientPhones, c \in Codes, d \in Delays(Instants), r \in FreshRands :
        LET p == formatPhoneNumber(ph)
            out == verifyOTPAndLogin(ph, c, d, r)
        IN (p # Null /\ p \notin sentSince) =>
              /\ out.res = Fail("No OTP session found. Please request a new OTP.")
              /\ out.users = users
              /\ out.storage = storage
              /\ out.otpSessions = otpSessions
              /\ out.pendingRegistrations = pendingRegistrations
              /\ out.otpStore = otpStore

\* a verify after a successful login found no session
C5_Witness ==
    /\ IsVerify
    /\ ~last.success
    /\ last.error = ERR_NO_SESSION
    /\ last.phone \notin sentSince
    /\ \E i \in 1..Len(users) : users[i].phone = last.phone

\* C6: sendOTP of the raw 10-digit number 9876543210 stores an entry and a
\* session under +919876543210 and returns that the OTP was sent.
C6_TenDigits ==
    \A c \in Codes :
        LET out == sendOTP(RAW_TEN, pendingRegistrations, c, 0) IN
        /\ formatPhoneNumber(RAW_TEN) = CANON_TEN
        /\ out.res.success
        /\ out.res.otpSent
        /\ CANON_TEN \in DOMAIN out.otpStore
        /\ CANON_TEN \in DOMAIN out.otpSessions

\* C7: on the email branch authenticateAdmin returns success with an
\* admin-role user exactly when the identifier is an allow-listed email and the
\* password is present and allow-listed; an allow-listed email with a missing
\* or unlisted password fails, creates no user and touches no lastLogin.
C7_AdminEmail ==
    \A id \in Emails, pw \in Passwords, r \in FreshRands :
        LET out == authenticateAdmin(id, pw, "100000", 0, r)
            listed == id \in {<<"praveen@stellaronehealth.com">>, <<"admin@easymed.in">>,
                              <<"admin@gmail.com">>}
            accepted == pw \in {"dummy123", "admin123", "easymed2025"}
        IN /\ (/\ out.res.success
               /\ Len(out.res.user) = 1
               /\ out.res.user[1].userType = "admin") <=> (listed /\ accepted)
           /\ (listed /\ ~accepted) =>
                /\ out.res = Fail("Invalid password")
                /\ out.users = users
                /\ out.storage = storage

\* C8: authenticateAdmin with a phone identifier that normalizes to the admin
\* phone +919060328119 behaves exactly like sendOTP; with a phone that
\* normalizes to another number it fails with the access-denied message and
\* creates no OTP entry and no session.
C8_AdminPhone ==
    \A id \in RawPhones, c \in Codes, r \in FreshRands :
        LET p == formatPhoneNumber(id)
            out == authenticateAdmin(id, "", c, 0, r)
            sent == sendOTP(id, pendingRegistrations, c, 0)
        IN /\ p = RAW_ADMIN =>
                /\ out = sent
                /\ out.res.otpSent
                /\ RAW_ADMIN \in DOMAIN out.otpStore
                /\ RAW_ADMIN \in DOMAIN out.otpSessions
           /\ (p # Null /\ p # RAW_ADMIN) =>
                /\ out.res = Fail("Access denied. Contact system administrator.")
                /\ out.otpStore = otpStore
                /\ out.otpSessions = otpSessions

HasUserWithPhone(p) == \E i \in 1..Len(users) : users[i].phone = p

\* C9: registerUser on a normalizable phone fails with the already-exists
\* message exactly when the directory holds a user with the normalized phone,
\* and then changes no store; otherwise it stores the draft (with the
\* normalized phone) as the pending registration of the phone, replacing a
\* pending draft if there is one, and returns what sendOTP returns, a new code
\* being issued.
C9_Register ==
    \A reg \in Registrations, c \in Codes, d \in Delays(CoarseInstants) :
        LET p == formatPhoneNumber(reg.phone)
            out == registerUser(reg, c, d)
            sent == sendOTP(p, pendingRegistrations, c, d)
        IN p # Null =>
            /\ (out.res = Fail("User already exists with this phone number"))
                    <=> HasUserWithPhone(p)
            /\ HasUserWithPhone(p) =>
                    /\ out.pendingRegistrations = pendingRegistrations
                    /\ out.otpStore = otpStore
                    /\ out.otpSessions = otpSessions
                    /\ out.users = users
                    /\ out.storage = storage
            /\ ~HasUserWithPhone(p) =>
                    /\ p \in DOMAIN out.pendingRegistrations
                    /\ out.pendingRegistrations[p] = [reg EXCEPT !.phone = p]
                    /\ \A q \in DOMAIN pendingRegistrations \ {p} :
                          /\ q \in DOMAIN out.pendingRegistrations
                          /\ out.pendingRegistrations[q] = pendingRegistrations[q]
                    /\ out.res = sent.res
                    /\ out.res.otpSent
                    /\ out.otpStore = sent.otpStore
                    /\ out.otpStore[p].code = c
                    /\ out.otpSessions = sent.otpSessions
                    /\ out.users = users

\* a second register replaced the pending draft of a phone without a user and
\* a new code replaced the unconsumed one
C9_Witness ==
    /\ last.op = "registerUser"
    /\ last.success
    /\ last.stored # NoCode
    /\ ~HasUserWithPhone(last.phone)
    /\ pendingRegistrations[last.phone].name = <<"Mallory">>
    /\ issued[last.phone].prior # NoCode

\* C10: a successful verifyOTPAndLogin returns the first user that has the
\* phone, creating none; else a new user made of the pending registration of
\* the phone, which is deleted; else a new patient named "User " followed by
\* the last four digits of the phone.  In each case the user's lastLogin is the
\* time of the login and the user is in the directory.
C10_ResolveUser ==
    \A ph \in {RAW_TWELVE, RAW_ADMIN}, c \in Codes, d \in Delays(CoarseInstants),
       r \in FreshRands :
        LET p == formatPhoneNumber(ph)
            out == verifyOTPAndLogin(ph, c, d, r)
            u == out.res.user[1]
            old == {i \in 1..Len(users) : users[i].phone = p}
        IN out.res.success =>
            /\ Len(out.res.user) = 1
            /\ u.lastLogin = now + d
            /\ u.phone = p
            /\ \E i \in 1..Len(out.users) : out.users[i] = u
            /\ old # {} =>
                 /\ \E i \in old : /\ \A j \in old : i <= j
                                   /\ u = [users[i] EXCEPT !.lastLogin = now + d]
                                   /\ out.users = [users EXCEPT ![i] = u]
                 /\ out.pendingRegistrations = pendingRegistrations
            /\ (old = {} /\ p \in DOMAIN pendingRegistrations) =>
                 /\ Len(out.users) = Len(users) + 1
                 /\ \A i \in 1..Len(users) : out.users[i] = users[i] /\ users[i].id # u.id
                 /\ u.userType = pendingRegistrations[p].userType
                 /\ u.name = pendingRegistrations[p].name
                 /\ u.email = pendingRegistrations[p].email
                 /\ u.specialty = pendingRegistrations[p].specialty
                 /\ u.village = pendingRegistrations[p].village
                 /\ u.organization = pendingRegistrations[p].organization
                 /\ out.pendingRegistrations = MapDelete(pendingRegistrations, p)
            /\ (old = {} /\ p \notin DOMAIN pendingRegistrations) =>
                 /\ Len(out.users) = Len(users) + 1
                 /\ \A i \in 1..Len(users) : out.users[i] = users[i] /\ users[i].id # u.id
                 /\ u.userType = "patient"
                 /\ u.name = <<"User ">> \o SubSeq(p, Len(p) - 3, Len(p))
                 /\ u.email = Null
                 /\ out.pendingRegistrations = pendingRegistrations

\* a login has turned the pending registration of a phone into a user
C10_Witness ==
    /\ IsVerify
    /\ last.success
    /\ last.phone \notin DOMAIN pendingRegistrations
    /\ \E i \in 1..Len(users) :
          /\ users[i].phone = last.phone
          /\ users[i].name = <<"Dr Rao">>
          /\ users[i].userType = "doctor"
          /\ users[i].createdAt = now
          /\ users[i].lastLogin = now
    /\ \E i \in 1..Len(users) : users[i].phone # last.phone

\* C11: a verifyOTPAndLogin that the verifier refuses because the code differs
\* from the stored, unexpired code leaves the OTP entry, the session, the
\* pending registrations, the directory and its stored copy as they were; and
\* whenever a phone has an entry and a session (so also after any number of
\* such refusals), a verifyOTPAndLogin with the stored code that reaches the
\* verifier no later than the entry's expiresAt succeeds.
C11_InvalidKeeps ==
    \A ph \in PatientPhones, c \in Codes, d \in Delays(Instants), r \in FreshRands :
        LET p == formatPhoneNumber(ph)
            out == verifyOTPAndLogin(ph, c, d, r)
        IN /\ (out.vres = "failed" /\ out.res.error = "Invalid OTP") =>
                /\ p \in DOMAIN otpStore
                /\ otpStore[p].code # c
                /\ now + d <= otpStore[p].expiresAt
                /\ out.res = Fail("Invalid OTP")
                /\ out.otpStore = otpStore
                /\ out.otpSessions = otpSessions
                /\ out.pendingRegistrations = pendingRegistrations
                /\ out.users = users
                /\ out.storage = storage
           /\ (/\ p \in DOMAIN otpStore
               /\ p \in DOMAIN otpSessions
               /\ otpStore[p].code = c
               /\ now + d <= otpStore[p].expiresAt) =>
                /\ out.res.success
                /\ out.vres = "approved"

\* a wrong code was refused at the last instant of the window; the entry and
\* the session of the phone are still in place
C11_Witness ==
    /\ IsVerify
    /\ ~last.success
    /\ last.vres = "failed"
    /\ last.error = ERR_INVALID_OTP
    /\ last.stored # NoCode
    /\ last.code # last.stored
    /\ last.phone \in DOMAIN otpStore
    /\ otpStore[last.phone].code = last.stored
    /\ last.phone \in DOMAIN otpSessions
    /\ now = otpStore[last.phone].expiresAt

(* ------------------- the directory and its stored copy ----------------- *)

\* logins that create users (by OTP and by the administrator's email),
\* profile linking, the bulk clear and page loads
NextDirectory ==
    \/ \E d \in Delays(CoarseInstants) : SendOTP(RAW_ADMIN, "100000", d)
    \/ \E d \in Delays(CoarseInstants), r \in FreshRands :
          VerifyOTPAndLogin(RAW_ADMIN, "100000", d, r)
    \/ \E r \in FreshRands : AuthenticateAdmin(<<"admin@easymed.in">>, "admin123", "100000", 0, r)
    \/ \E id \in UserIds, profile \in Profiles : LinkABHAProfile(id, profile)
    \/ ClearAllData
    \/ Constructor
    \/ Tick(CoarseInstants)

SpecDirectory == Init /\ [][NextDirectory]_vars

STORED_PATIENT ==
    [createUser(<< >>, DefaultPatient(RAW_ADMIN), 0, "k3x").user EXCEPT !.lastLogin = 1]
STORED_ADMIN ==
    [createUser(<< >>, AdminRegistration(PRAVEEN), 1, "9qz").user
        EXCEPT !.isVerified = TRUE, !.abhaProfile = "abha-1"]

\* what the item may hold at a page load: nothing, a string that does not
\* parse, or an object of up to two properties, each a saved user or null
StoredEntries == {SerializeUser(STORED_PATIENT), SerializeUser(STORED_ADMIN), NullEntry}
StoredValues ==
    {NoItem, Unparseable}
    \cup {[present |-> TRUE, parses |-> TRUE, entries |-> << >>]}
    \cup {[present |-> TRUE, parses |-> TRUE, entries |-> <<e>>] : e \in StoredEntries}
    \cup {[present |-> TRUE, parses |-> TRUE, entries |-> <<q[1], q[2]>>] :
             q \in {w \in StoredEntries \X StoredEntries :
                       w[1] # w[2] \/ w[1] = NullEntry}}

\* a page load some time after the item was written
InitStorage ==
    /\ otpStore = << >>
    /\ otpSessions = << >>
    /\ pendingRegistrations = << >>
    /\ storage \in StoredValues
    /\ users = loadUsersFromStorage(storage)
    /\ now = OTP_TTL
    /\ last = NoCall("constructor")
    /\ issued = << >>
    /\ sentSince = {}
    /\ calls = << >>
    /\ start = << >>
    /\ page = LoginPageInit

NextStorage ==
    \/ \E id \in {<<"admin@easymed.in">>, PRAVEEN}, r \in FreshRands :
          AuthenticateAdmin(id, "admin123", "100000", 0, r)
    \/ \E id \in UserIds, profile \in Profiles : LinkABHAProfile(id, profile)
    \/ ClearAllData
    \/ Constructor
    \/ Tick(Instants)

SpecStorage == InitStorage /\ [][NextStorage]_vars

\* the stored item is missing or malformed
Malformed(st) ==
    \/ ~st.present
    \/ ~st.parses
    \/ \E i \in 1..Len(st.entries) : st.entries[i] = NullEntry

\* C14: saving a directory of N users and loading it yields N users with the
\* same ids, roles and phones and with createdAt and lastLogin at the same
\* instants; a missing or malformed stored item loads as an empty directory.
C14_RoundTrip ==
    /\ LET loaded == loadUsersFromStorage(saveUsersToStorage(users)) IN
          /\ Len(loaded) = Len(users)
          /\ \A i \in 1..Len(users) :
                /\ loaded[i].id = users[i].id
                /\ loaded[i].userType = users[i].userType
                /\ loaded[i].phone = users[i].phone
                /\ loaded[i].createdAt = users[i].createdAt
                /\ loaded[i].lastLogin = users[i].lastLogin
    /\ Malformed(storage) => loadUsersFromStorage(storage) = << >>

(* ------------------------- the phone normalizer ------------------------ *)

TEN_6789 == <<"6","7","8","9","0","1","2","3","4","5">>
TEN_6789_PUNCT == <<"(","6","7","8",") ","9","0","1","-","2","3","4","5">>
TWELVE_SPACED == <<"+","9","1"," ","9","0","6","0","3"," ","2","8","1","1","9">>
THIRTEEN == <<"0","9","1","6","7","8","9","0","1","2","3","4","5">>
ELEVEN == <<"0","9","8","7","6","5","4","3","2","1","0">>
TWELVE_UK == <<"4","4","9","8","7","6","5","4","3","2","1","0">>
THIRTEEN_191 == <<"1","9","1","9","8","7","6","5","4","3","2","1","0">>
NINE == <<"9","8","7","6","5","4","3","2","1">>

\* raw phone arguments: the 10-, 12- and 13-digit forms the normalizer
\* accepts, bare and punctuated, and forms it rejects
AcceptedForms ==
    {TEN_6789, TEN_6789_PUNCT, THIRTEEN, TWELVE_SPACED, RAW_ADMIN, RAW_ADMIN13}
RejectedForms ==
    {RAW_TEN, ELEVEN, TWELVE_UK, THIRTEEN_191, NINE, <<"abc">>, << >>}
RawForms == AcceptedForms \cup RejectedForms

\* a registration draft for a raw phone
DraftFor(ph) ==
    [name |-> <<"Dr Rao">>, email |-> Null, phone |-> ph, userType |-> "doctor",
     specialty |-> "cardiology", village |-> Undefined, organization |-> Undefined]

\* every public method that takes a phone, called with every raw form, at
\* one clock value
NextNormalize ==
    \/ \E ph \in RawForms : SendOTP(ph, "100000", 0)
    \/ \E ph \in RawForms, r \in FreshRands : VerifyOTPAndLogin(ph, "100000", 0, r)
    \/ \E ph \in RawForms : RegisterUser(DraftFor(ph), "100000", 0)
    \/ \E ph \in RawForms, r \in FreshRands : AuthenticateAdmin(ph, "", "100000", 0, r)
    \/ ClearAllData

SpecNormalize == Init /\ [][NextNormalize]_vars

\* C15: formatPhoneNumber is idempotent on what it accepts: for every raw
\* form, if formatPhoneNumber(raw) is a number p then formatPhoneNumber(p) = p;
\* so every key under which an entry, a session or a draft is stored is
\* normalized to itself.
C15_Idempotent ==
    /\ \A raw \in RawForms :
          LET p == formatPhoneNumber(raw) IN
          p # Null => formatPhoneNumber(p) = p
    /\ \A k \in DOMAIN otpStore \cup DOMAIN otpSessions \cup DOMAIN pendingRegistrations :
          formatPhoneNumber(k) = k

\* entries are stored for numbers given in the 10-digit and in the 13-digit form
C15_Witness ==
    /\ formatPhoneNumber(TEN_6789_PUNCT) \in DOMAIN otpStore
    /\ formatPhoneNumber(RAW_ADMIN13) \in DOMAIN otpStore
    /\ formatPhoneNumber(TWELVE_SPACED) \in DOMAIN otpSessions
    /\ last.op = "sendOTP"
    /\ last.success

\* +91 followed by ten digits
IsCanonical(k) ==
    /\ Len(k) = 13
    /\ SubSeq(k, 1, 3) = <<"+","9","1">>
    /\ \A i \in 4..13 : k[i] \in Digits

\* C16: a raw phone that formatPhoneNumber rejects is never stored.  sendOTP,
\* verifyOTPAndLogin, registerUser and the phone branch of authenticateAdmin
\* (a raw phone that passes its phone test) return the invalid-phone failure
\* for it and leave the OTP store, the sessions, the pending registrations,
\* the directory and its stored copy as they were; and every key of the OTP
\* store, of the sessions and of the pending registrations is +91 followed by
\* ten digits, as is the phone of every session and of every draft.
C16_RejectedNeverStored ==
    /\ \A raw \in RawForms, c \in Codes, r \in FreshRands :
          formatPhoneNumber(raw) = Null =>
             LET refused == Unchanged(Fail("Invalid phone number format"), Null) IN
             /\ sendOTP(raw, pendingRegistrations, c, 0) = refused
             /\ verifyOTPAndLogin(raw, c, 0, r) = refused
             /\ registerUser(DraftFor(raw), c, 0) = refused
             /\ LooksLikePhone(raw) => authenticateAdmin(raw, "", c, 0, r) = refused
    /\ \A k \in DOMAIN otpStore : IsCanonical(k)
    /\ \A k \in DOMAIN otpSessions : IsCanonical(k) /\ otpSessions[k].phone = k
    /\ \A k \in DOMAIN pendingRegistrations :
          IsCanonical(k) /\ pendingRegistrations[k].phone = k

\* a call with a rejected phone was refused while entries, sessions and a
\* draft were stored for other numbers
C16_Witness ==
    /\ last.op \in {"sendOTP", "verifyOTPAndLogin", "registerUser", "authenticateAdmin"}
    /\ ~last.success
    /\ last.error = ERR_INVALID_PHONE
    /\ Cardinality(DOMAIN otpStore) = 2
    /\ Cardinality(DOMAIN otpSessions) = 2
    /\ pendingRegistrations # << >>

\* the users the administrator's email login creates; every other user of the
\* directory was created by a verifyOTPAndLogin
CreatedByAdminLogin(u) == u.userType = "admin" /\ u.email \in adminEmails

UniqueUsers ==
    \A i, j \in 1..Len(users) :
        i # j =>
            /\ users[i].id # users[j].id
            /\ users[i].phone = users[j].phone =>
                  (CreatedByAdminLogin(users[i]) \/ CreatedByAdminLogin(users[j]))

\* a step keeps the id and the createdAt of every user it keeps
KeepsIdentity ==
    \A i \in 1..Len(users) :
        /\ \A j \in 1..Len(users') : users'[j].id = users[i].id => j = i
        /\ i <= Len(users') =>
              /\ users'[i].id = users[i].id
              /\ users'[i].createdAt = users[i].createdAt

\* C17: in every reachable state no two users created by the OTP flows share a
\* phone and no two users share an id; and no step changes the id or the
\* createdAt of a user that stays in the directory.
C17_UniqueUsers == []UniqueUsers /\ [][KeepsIdentity]_vars

\* an OTP login has touched an earlier user; the directory holds two users
\* created by OTP logins with different phones and a user created by the
\* administrator's email login who shares the phone of one of them
C17_Witness ==
    /\ IsVerify
    /\ last.success
    /\ \E i, j, k \in 1..Len(users) :
          /\ ~CreatedByAdminLogin(users[i])
          /\ ~CreatedByAdminLogin(users[j])
          /\ users[i].phone # users[j].phone
          /\ CreatedByAdminLogin(users[k])
          /\ users[k].phone = users[i].phone
          /\ users[j].phone = last.phone
          /\ users[j].createdAt < users[j].lastLogin

\* a failing sendOTP, registerUser, authenticateAdmin or linkABHAProfile, and
\* a verifyOTPAndLogin refused for its phone, has changed nothing, so the same
\* call repeated meets the same state and returns the same failure
FailuresChangeNothing ==
    /\ \A ph \in RawPhones, c \in Codes :
          LET out == sendOTP(ph, pendingRegistrations, c, 0) IN
          ~out.res.success => out = Unchanged(out.res, out.phone)
    /\ \A reg \in Registrations, c \in Codes :
          LET out == registerUser(reg, c, 0) IN
          ~out.res.success => out = Unchanged(out.res, out.phone)
    /\ \A id \in Identifiers, pw \in Passwords, c \in Codes, r \in FreshRands :
          LET out == authenticateAdmin(id, pw, c, 0, r) IN
          ~out.res.success => out = Unchanged(out.res, out.phone)
    /\ \A id \in UserIds, profile \in Profiles :
          LET out == linkABHAProfile(id, profile) IN
          ~out.res.success => out = Unchanged(out.res, out.phone)
    /\ \A ph \in RawPhones, c \in Codes, r \in FreshRands :
          LET out == verifyOTPAndLogin(ph, c, 0, r) IN
          formatPhoneNumber(ph) = Null => out = Unchanged(Fail(ERR_INVALID_PHONE), Null)

\* C18 as stated: when a call has returned a failure, the same call repeated
\* at once returns the same failure and changes no store.
C18_SameFailure ==
    /\ FailuresChangeNothing
    /\ (IsVerify /\ ~last.success) =>
          \A r \in FreshRands :
             LET again == verifyOTPAndLogin(last.phone, last.code, 0, r) IN
             /\ again.res = Fail(last.error)
             /\ again.otpStore = otpStore
             /\ again.otpSessions = otpSessions
             /\ again.pendingRegistrations = pendingRegistrations
             /\ again.users = users
             /\ again.storage = storage

\* C18 amended: when a call has returned a failure, the same call repeated at
\* once fails again and leaves the directory, its stored copy, the pending
\* registrations and the OTP store as they are.  It returns the same failure
\* and leaves the sessions as they are, unless the session of the phone has
\* timed out: the verifyOTPAndLogin that meets a timed-out session deletes it
\* and reports the expiry, and the one after it reports that there is no
\* session.
C18_RetryFails ==
    /\ FailuresChangeNothing
    /\ (IsVerify /\ ~last.success) =>
          \A r \in FreshRands :
             LET p == last.phone
                 again == verifyOTPAndLogin(p, last.code, 0, r)
             IN /\ ~again.res.success
                /\ again.otpStore = otpStore
                /\ again.pendingRegistrations = pendingRegistrations
                /\ again.users = users
                /\ again.storage = storage
                /\ p \notin DOMAIN otpSessions =>
                      /\ last.error \in {ERR_NO_SESSION, ERR_SESSION_EXPIRED}
                      /\ again.res = Fail("No OTP session found. Please request a new OTP.")
                      /\ again.otpSessions = otpSessions
                /\ (p \in DOMAIN otpSessions
                      /\ now - otpSessions[p].timestamp <= 5 * 60 * 1000) =>
                      /\ again.res = Fail(last.error)
                      /\ again.otpSessions = otpSessions
                /\ (p \in DOMAIN otpSessions
                      /\ now - otpSessions[p].timestamp > 5 * 60 * 1000) =>
                      /\ again.res = Fail("OTP session expired. Please request a new OTP.")
                      /\ again.otpSessions = MapDelete(otpSessions, p)

\* a verifyOTPAndLogin with a wrong code met a timed-out session and deleted
\* it, in a directory that holds a user
C18_Witness ==
    /\ IsVerify
    /\ ~last.success
    /\ last.vres = "not_called"
    /\ last.error = ERR_SESSION_EXPIRED
    /\ last.phone \notin DOMAIN otpSessions
    /\ last.code # last.stored
    /\ Len(users) > 0

(* ------------------------- overlapping calls --------------------------- *)

\* the stores a segment reads and writes
Stores ==
    [otpStore |-> otpStore, otpSessions |-> otpSessions,
     pendingRegistrations |-> pendingRegistrations, users |-> users, storage |-> storage]

\* a call in flight: its arguments (the phone, the submitted code, the
\* registration of a registerUser), the code the issuer draws for it, the
\* suffix of the id it may create, the await it is suspended at, its place
\* in the queue of continuations, its locals (formattedPhone, what the
\* awaited TwilioService call returned, the user it resolved) and its result
\* once it has one
NewCall(op, phone, code, registration, otp, r) ==
    [op |-> op, phone |-> phone, code |-> code, registration |-> registration,
     otp |-> otp, r |-> r, pc |-> "start", turn |-> 0, formattedPhone |-> Null,
     awaited |-> [ok |-> FALSE, errorMessage |-> Undefined], user |-> << >>, res |-> << >>]

Return(S, c, res) == [S |-> S, call |-> [c EXCEPT !.pc = "done", !.res = <<res>>]]
Suspend(S, c, pc) == [S |-> S, call |-> [c EXCEPT !.pc = pc]]

\* sendOTP up to its await (part_001:58-67): twilioService.sendOTP has stored the code
SendStart(S, c, phoneNumber, t) ==
    LET formattedPhone == formatPhoneNumber(phoneNumber) IN
    IF formattedPhone = Null THEN Return(S, c, Fail(ERR_INVALID_PHONE))
    ELSE LET result == TwilioSendOTP(S.otpStore, formattedPhone, c.otp, t) IN
         Suspend([S EXCEPT !.otpStore = result.store],
                 [c EXCEPT !.formattedPhone = formattedPhone,
                           !.awaited = [ok |-> result.status = "pending",
                                        errorMessage |-> result.errorMessage]],
                 "sendOTP: await twilioService.sendOTP")

\* sendOTP after its await (part_001:69-86)
SendResume(S, c, t) ==
    IF c.awaited.ok
    THEN Return([S EXCEPT !.otpSessions =
                     MapSet(@, c.formattedPhone,
                            [phone |-> c.formattedPhone, timestamp |-> t])],
                c, Result(TRUE, Undefined, TRUE, << >>))
    ELSE Return(S, c, Fail(OrElse(c.awaited.errorMessage, ERR_SEND_FAILED)))

\* registerUser up to the await inside the sendOTP it calls (part_001:162-181)
RegisterStart(S, c, t) ==
    LET formattedPhone == formatPhoneNumber(c.registration.phone) IN
    IF formattedPhone = Null THEN Return(S, c, Fail(ERR_INVALID_PHONE))
    ELSE IF findUserByPhone(S.users, formattedPhone) # 0
    THEN Return(S, c, Fail(ERR_USER_EXISTS))
    ELSE LET S1 == [S EXCEPT !.pendingRegistrations =
                        MapSet(@, formattedPhone,
                               [c.registration EXCEPT !.phone = formattedPhone])]
             sent == SendStart(S1, c, formattedPhone, t)
         IN IF sent.call.pc = "done"
            THEN Suspend(sent.S, [c EXCEPT !.res = sent.call.res], "registerUser: await this.sendOTP")
            ELSE sent

\* registerUser while its sendOTP finishes; registerUser itself is still awaiting
RegisterResume(S, c, t) ==
    LET sent == SendResume(S, c, t) IN
    Suspend(sent.S, [c EXCEPT !.res = sent.call.res], "registerUser: await this.sendOTP")

\* user.lastLogin = new Date(); this.saveUsersToStorage(); return (part_001:147-151).
\* user is an object of the Map: what other calls wrote to it meanwhile is in it
TouchAndReturn(S, c, user, t) ==
    LET i == getUserById(S.users, user.id)
        users2 == IF i = 0 THEN S.users ELSE [S.users EXCEPT ![i].lastLogin = t]
        touched == IF i = 0 THEN [user EXCEPT !.lastLogin = t] ELSE users2[i]
    IN Return([S EXCEPT !.users = users2, !.storage = saveUsersToStorage(users2)], c,
              Result(TRUE, Undefined, FALSE, <<touched>>))

\* mutant: the verifier's deletion of the approved code is not yet done when
\* verifyOTPAndLogin is suspended
VerifyStart_Deferred(S, c, t) ==
    LET formattedPhone == formatPhoneNumber(c.phone) IN
    IF formattedPhone = Null THEN Return(S, c, Fail(ERR_INVALID_PHONE))
    ELSE IF formattedPhone \notin DOMAIN S.otpSessions THEN Return(S, c, Fail(ERR_NO_SESSION))
    ELSE IF SessionTimedOut(S.otpSessions[formattedPhone], t)
    THEN Return([S EXCEPT !.otpSessions = MapDelete(@, formattedPhone)], c,
                Fail(ERR_SESSION_EXPIRED))
    ELSE LET verificationResult == TwilioVerifyOTP(S.otpStore, formattedPhone, c.code, t) IN
         Suspend(S,
                 [c EXCEPT !.formattedPhone = formattedPhone,
                           !.awaited = [ok |-> verificationResult.valid,
                                        errorMessage |-> verificationResult.errorMessage]],
                 "verifyOTPAndLogin: await twilioService.verifyOTP")

\* verifyOTPAndLogin up to its first await (part_001:96-116): twilioService.verifyOTP has run
VerifyStart(S, c, t) ==
    LET formattedPhone == formatPhoneNumber(c.phone) IN
    IF formattedPhone = Null THEN Return(S, c, Fail(ERR_INVALID_PHONE))
    ELSE IF formattedPhone \notin DOMAIN S.otpSessions THEN Return(S, c, Fail(ERR_NO_SESSION))
    ELSE IF SessionTimedOut(S.otpSessions[formattedPhone], t)
    THEN Return([S EXCEPT !.otpSessions = MapDelete(@, formattedPhone)], c,
                Fail(ERR_SESSION_EXPIRED))
    ELSE LET verificationResult == TwilioVerifyOTP(S.otpStore, formattedPhone, c.code, t) IN
         Suspend([S EXCEPT !.otpStore = verificationResult.store],
                 [c EXCEPT !.formattedPhone = formattedPhone,
                           !.awaited = [ok |-> verificationResult.valid,
                                        errorMessage |-> verificationResult.errorMessage]],
                 "verifyOTPAndLogin: await twilioService.verifyOTP")

\* verifyOTPAndLogin from the verifier's answer up to the await of createUser,
\* or to its return if the phone has a user (part_001:118-145)
VerifyResolve(S, c, t) ==
    IF ~c.awaited.ok
    THEN Return(S, c, Fail(OrElse(c.awaited.errorMessage, ERR_INVALID_OTP)))
    ELSE LET S1 == [S EXCEPT !.otpSessions = CleanUpSession(@, c.formattedPhone)]
             found == findUserByPhone(S1.users, c.formattedPhone)
             hasPending == c.formattedPhone \in DOMAIN S1.pendingRegistrations
             created == createUser(S1.users,
                                   IF hasPending THEN S1.pendingRegistrations[c.formattedPhone]
                                   ELSE DefaultPatient(c.formattedPhone), t, c.r)
         IN IF found # 0 THEN TouchAndReturn(S1, c, S1.users[found], t)
            ELSE Suspend([S1 EXCEPT !.users = created.users,
                                    !.storage = saveUsersToStorage(created.users)],
                         [c EXCEPT !.user = <<created.user>>],
                         IF hasPending
                         THEN "verifyOTPAndLogin: await this.createUser(pendingReg)"
                         ELSE "verifyOTPAndLogin: await this.createUser(default)")

\* verifyOTPAndLogin after createUser (part_001:136, 147-151)
VerifyFinish(S, c, t) ==
    LET S1 == IF c.pc = "verifyOTPAndLogin: await this.createUser(pendingReg)"
              THEN [S EXCEPT !.pendingRegistrations = MapDelete(@, c.formattedPhone)]
              ELSE S
    IN TouchAndReturn(S1, c, c.user[1], t)

\* the segment of call c that runs next, on the stores S at clock value t
Step(S, c, t) ==
    CASE c.op = "sendOTP" /\ c.pc = "start" -> SendStart(S, c, c.phone, t)
      [] c.op = "sendOTP" /\ c.pc # "start" -> SendResume(S, c, t)
      [] c.op = "registerUser" /\ c.pc = "start" -> RegisterStart(S, c, t)
      [] c.op = "registerUser" /\ c.pc = "sendOTP: await twilioService.sendOTP" ->
            RegisterResume(S, c, t)
      [] c.op = "registerUser" /\ c.pc = "registerUser: await this.sendOTP" ->
            Return(S, c, c.res[1])
      [] c.op = "verifyOTPAndLogin" /\ c.pc = "start" -> VerifyStart(S, c, t)
      [] c.op = "verifyOTPAndLogin" /\ c.pc = "verifyOTPAndLogin: await twilioService.verifyOTP" ->
            VerifyResolve(S, c, t)
      [] OTHER -> VerifyFinish(S, c, t)

\* a call run from where it is to its return with no other call in between
RECURSIVE RunToEnd(_, _, _)
RunToEnd(S, c, t) ==
    IF c.pc = "done" THEN [S |-> S, call |-> c]
    ELSE LET x == Step(S, c, t) IN RunToEnd(x.S, x.call, t)

\* two calls for one phone made before either has returned
OverlapPairs ==
    LET ph == RAW_TWELVE
        send(otp) == NewCall("sendOTP", ph, NoCode, DraftFor(ph), otp, "none")
        register(otp) == NewCall("registerUser", ph, NoCode, DraftFor(ph), otp, "none")
        verify(code, r) == NewCall("verifyOTPAndLogin", ph, code, DraftFor(ph), NoCode, r)
    IN {<<send(otp), verify(code, r)>> : otp \in Codes, code \in Codes, r \in FreshRands}
       \cup {<<send(otp), send(otp2)>> : otp \in Codes, otp2 \in Codes}
       \cup {<<register(otp), verify(code, r)>> : otp \in Codes, code \in Codes, r \in FreshRands}

StartOverlap ==
    /\ calls = << >>
    /\ \E pair \in OverlapPairs :
          /\ calls' = pair
          /\ start' = <<[stores |-> Stores, calls |-> pair]>>
    /\ last' = NoCall("overlap")
    /\ UNCHANGED <<otpStore, otpSessions, pendingRegistrations, users, storage, now,
                   issued, sentSince, page>>

\* call i is suspended at an await
Suspended(i) == calls[i].pc \notin {"start", "done"}

\* call i runs its next segment, up to the next await.  A call that has not
\* begun can be made at any moment, and runs up to its first await at once;
\* every await is of a promise that is already resolved, so the suspended
\* calls are resumed in the order in which they were suspended.
Resume(i) ==
    /\ i \in 1..Len(calls)
    /\ calls[i].pc # "done"
    /\ Suspended(i) =>
          \A j \in 1..Len(calls) : (j # i /\ Suspended(j)) => calls[i].turn < calls[j].turn
    /\ LET x == Step(Stores, calls[i], now)
           latest == CHOOSE n \in {calls[j].turn : j \in 1..Len(calls)} :
                        \A j \in 1..Len(calls) : calls[j].turn <= n
       IN /\ otpStore' = x.S.otpStore
          /\ otpSessions' = x.S.otpSessions
          /\ pendingRegistrations' = x.S.pendingRegistrations
          /\ users' = x.S.users
          /\ storage' = x.S.storage
          /\ calls' = [calls EXCEPT ![i] = [x.call EXCEPT !.turn = latest + 1]]
    /\ UNCHANGED <<now, last, issued, sentSince, start, page>>

\* both calls have returned
Returned == Len(calls) = 2 /\ \A i \in 1..2 : calls[i].pc = "done"

Settle ==
    /\ Returned
    /\ calls' = << >>
    /\ start' = << >>
    /\ UNCHANGED <<otpStore, otpSessions, pendingRegistrations, users, storage, now,
                   last, issued, sentSince, page>>

\* calls for one phone, one at a time or two overlapping
NextOverlap ==
    \/ calls = << >> /\ \E c \in Codes : SendOTP(RAW_TWELVE, c, 0)
    \/ calls = << >> /\ \E c \in Codes, r \in FreshRands : VerifyOTPAndLogin(RAW_TWELVE, c, 0, r)
    \/ calls = << >> /\ RegisterUser(DraftFor(RAW_TWELVE), "100000", 0)
    \/ calls = << >> /\ ClearAllData
    \/ StartOverlap
    \/ \E i \in 1..2 : Resume(i)
    \/ Settle

SpecOverlap == Init /\ [][NextOverlap]_vars

\* the stores and the two results when call a runs to its return and then call b
Serial(S, a, b, t) ==
    LET first == RunToEnd(S, a, t)
        second == RunToEnd(first.S, b, t)
    IN [S |-> second.S, a |-> first.call.res, b |-> second.call.res]

\* run alone, the segments of a call do what the handler does in one step
SegmentsAgree ==
    \A c \in Codes, r \in FreshRands :
        LET ph == RAW_TWELVE
            agrees(call, out) ==
                LET x == RunToEnd(Stores, call, now) IN
                /\ x.call.res = <<out.res>>
                /\ x.S = [otpStore |-> out.otpStore, otpSessions |-> out.otpSessions,
                          pendingRegistrations |-> out.pendingRegistrations,
                          users |-> out.users, storage |-> out.storage]
        IN /\ agrees(NewCall("sendOTP", ph, NoCode, DraftFor(ph), c, "none"),
                     sendOTP(ph, pendingRegistrations, c, 0))
           /\ agrees(NewCall("registerUser", ph, NoCode, DraftFor(ph), c, "none"),
                     registerUser(DraftFor(ph), c, 0))
           /\ agrees(NewCall("verifyOTPAndLogin", ph, c, DraftFor(ph), NoCode, r),
                     verifyOTPAndLogin(ph, c, 0, r))

\* C19: when two calls for one phone overlap (a sendOTP and a
\* verifyOTPAndLogin, two sendOTP, or a registerUser and a verifyOTPAndLogin),
\* each suspended at its awaits, then once both have returned their results
\* and the OTP store, the sessions, the pending registrations, the directory
\* and its stored copy are those of one of the two serial orders of the calls.
C19_Serializable ==
    Returned =>
        LET S0 == start[1].stores
            a == start[1].calls[1]
            b == start[1].calls[2]
            ab == Serial(S0, a, b, now)
            ba == Serial(S0, b, a, now)
            got == [S |-> Stores, a |-> calls[1].res, b |-> calls[2].res]
        IN got = ab \/ got = [S |-> ba.S, a |-> ba.b, b |-> ba.a]

(* ------------------------------ demo mode ------------------------------ *)

\* codes a caller may submit, and the characters of each
SubmittedCodes == Codes \cup {"12345", "1234567", "12345a", ""}
CodeChars(code) ==
    CASE code = "100000" -> <<"1","0","0","0","0","0">>
      [] code = "999999" -> <<"9","9","9","9","9","9">>
      [] code = "12345" -> <<"1","2","3","4","5">>
      [] code = "1234567" -> <<"1","2","3","4","5","6","7">>
      [] code = "12345a" -> <<"1","2","3","4","5","a">>
      [] OTHER -> << >>

\* /^\d{6}$/.test(code)
IsSixDigits(code) ==
    LET chars == CodeChars(code) IN
    Len(chars) = 6 /\ \A i \in 1..6 : chars[i] \in Digits

\* verifyOTP of the second TwilioService definition of twilioService.ts, which
\* keeps no OTP store: without a client it approves any six digits when
\* NODE_ENV is 'development' or no account SID is configured; with a client it
\* returns what Twilio answers (approved or not)
TwilioVerifyOTP_Second(hasClient, accountSid, nodeEnv, code, twilioApproves) ==
    IF ~hasClient
    THEN IF nodeEnv = "development" \/ accountSid = ""
         THEN [status |-> IF IsSixDigits(code) THEN "approved" ELSE "failed",
               valid |-> IsSixDigits(code), errorMessage |-> Undefined]
         ELSE [status |-> "failed", valid |-> FALSE,
               errorMessage |-> "Twilio client not initialized"]
    ELSE [status |-> IF twilioApproves THEN "approved" ELSE "pending",
          valid |-> twilioApproves, errorMessage |-> Undefined]

\* C20: with no Twilio credentials configured (TwilioService never reads them
\* when it issues or checks a code), a verifyOTPAndLogin for a phone that has
\* a live session and an unexpired entry succeeds for every submitted code of
\* six digits, whichever code was issued, and fails for every code that is
\* not six digits.
C20_DemoAnyCode ==
    \A ph \in PatientPhones, c \in SubmittedCodes, d \in Delays(Instants), r \in FreshRands :
        LET p == formatPhoneNumber(ph)
            out == verifyOTPAndLogin(ph, c, d, r)
        IN (/\ p # Null
            /\ p \in DOMAIN otpSessions
            /\ ~SessionTimedOut(otpSessions[p], now)
            /\ p \in DOMAIN otpStore
            /\ ~OTPExpired(otpStore[p], now + d)) =>
               (out.res.success <=> IsSixDigits(c))

(* ------------------- the administrator's email login ------------------- *)

\* C21: the email branch of authenticateAdmin finds or creates.  In a
\* directory built by administrator email logins (and page loads of what they
\* stored) at most one user carries a given administrator email; a successful
\* login leaves a user with that email in the directory and returns it; and
\* when the directory already holds a user with the email, the login returns
\* that user's id, adds no user and changes nothing but that user's lastLogin
\* (and the stored copy of the directory).
C21_FindOrCreate ==
    /\ \A i, j \in 1..Len(users) :
          (users[i].email \in adminEmails /\ users[i].email = users[j].email) => i = j
    /\ \A id \in adminEmails, pw \in adminPasswords, r \in FreshRands :
          LET out == authenticateAdmin(id, pw, "100000", 0, r)
              old == findUserByEmail(users, id)
              new == findUserByEmail(out.users, id)
          IN /\ out.res.success
             /\ new # 0
             /\ out.res.user = <<out.users[new]>>
             /\ \A k \in 1..Len(out.users) : out.users[k].email = id => k = new
             /\ old # 0 =>
                   /\ new = old
                   /\ out.res.user[1].id = users[old].id
                   /\ out.users = [users EXCEPT ![old].lastLogin = now]
                   /\ out.storage = saveUsersToStorage(out.users)
                   /\ out.otpStore = otpStore
                   /\ out.otpSessions = otpSessions
                   /\ out.pendingRegistrations = pendingRegistrations

\* a repeated email login has touched the lastLogin of an administrator
\* created earlier, in a directory that holds a second administrator
C21_Witness ==
    /\ last.op = "authenticateAdmin"
    /\ last.success
    /\ \E i, j \in 1..Len(users) :
          /\ users[i].email \in adminEmails
          /\ users[j].email \in adminEmails
          /\ users[i].email # users[j].email
          /\ users[i].createdAt < now
          /\ users[i].lastLogin = now

(* ------------------------- the codes the issuer draws ------------------ *)

\* Math.random() is u / RandomDenominator for a u of 0 .. RandomDenominator - 1
RandomDenominator == 100
RandomValues == {0, 1, 50, 99}

DigitOf(n) ==
    CASE n = 0 -> "0" [] n = 1 -> "1" [] n = 2 -> "2" [] n = 3 -> "3" [] n = 4 -> "4"
      [] n = 5 -> "5" [] n = 6 -> "6" [] n = 7 -> "7" [] n = 8 -> "8" [] OTHER -> "9"

\* Number.prototype.toString of a non-negative integer: no leading zeros
RECURSIVE NumberToString(_)
NumberToString(n) == IF n < 10 THEN <<DigitOf(n)>> ELSE NumberToString(n \div 10) \o <<DigitOf(n % 10)>>

\* mutant: Math.floor(Math.random() * 1000000).toString()
GenerateOTP_Unpadded(u) == NumberToString((u * 1000000) \div RandomDenominator)

\* Math.floor(100000 + Math.random() * 900000).toString()
GenerateOTP(u) == NumberToString((100000 * RandomDenominator + u * 900000) \div RandomDenominator)

GeneratedCodes == {GenerateOTP(u) : u \in RandomValues}

\* sends with the codes the generator yields, and logins that submit them
NextIssuer ==
    \/ \E u \in RandomValues, d \in Delays(Instants) : SendOTP(RAW_TWELVE, GenerateOTP(u), d)
    \/ \E c \in GeneratedCodes, d \in Delays(Instants), r \in FreshRands :
          VerifyOTPAndLogin(RAW_TWELVE, c, d, r)
    \/ Constructor
    \/ Tick(Instants)

SpecIssuer == Init /\ [][NextIssuer]_vars

\* six decimal digits
SixDigits(code) == Len(code) = 6 /\ \A i \in 1..6 : code[i] \in Digits

\* every code the issuer draws and stores is six decimal digits and expires
\* 5 minutes after the clock value of the send
StoresSixDigits ==
    /\ \A u \in 0..(RandomDenominator - 1) : SixDigits(GenerateOTP(u))
    /\ \A u \in RandomValues :
          LET sent == TwilioSendOTP(otpStore, CANON_TEN, GenerateOTP(u), now) IN
          /\ sent.status = "pending"
          /\ sent.store[CANON_TEN] = [code |-> GenerateOTP(u), expiresAt |-> now + 5 * 60 * 1000]
    /\ \A p \in DOMAIN otpStore :
          /\ SixDigits(otpStore[p].code)
          /\ otpStore[p].expiresAt - 5 * 60 * 1000 \in Instants
          /\ otpStore[p].expiresAt <= now + 5 * 60 * 1000

\* C22 as stated: every stored code is six decimal digits and expires 5 minutes
\* after its issuance, and the generator can yield codes with leading zeros,
\* 000000 among them.
C22_AllSixDigitCodes ==
    /\ StoresSixDigits
    /\ \E u \in 0..(RandomDenominator - 1) : GenerateOTP(u) = <<"0","0","0","0","0","0">>
    /\ \E u \in 0..(RandomDenominator - 1) : GenerateOTP(u)[1] = "0"

\* C22 amended: every stored code is six decimal digits and expires 5 minutes
\* after its issuance; the generator yields the codes from 100000 (for the
\* random value 0) upwards, so the first digit of a code is never 0.
C22_NoLeadingZero ==
    /\ StoresSixDigits
    /\ GenerateOTP(0) = <<"1","0","0","0","0","0">>
    /\ \A u \in 0..(RandomDenominator - 1) : GenerateOTP(u)[1] # "0"
    /\ \A p \in DOMAIN otpStore : otpStore[p].code[1] # "0"

\* after a login with a generated code, a send at a later clock value has
\* stored the least code of the generator
C22_Witness ==
    /\ last.op = "sendOTP"
    /\ last.success
    /\ now > 0
    /\ Len(users) > 0
    /\ otpStore[last.phone] = [code |-> <<"1","0","0","0","0","0">>,
                               expiresAt |-> now + OTP_TTL]

(* ------------------- the administrator's phone login ------------------- *)

\* C23: where every code of the admin phone +919060328119 was sent by
\* authenticateAdmin, a verifyOTPAndLogin of that phone that succeeds returns
\* a user of type admin, whatever users the directory held before.
C23_AdminRole ==
    \A c \in Codes, d \in Delays(CoarseInstants), r \in FreshRands :
        LET out == verifyOTPAndLogin(RAW_ADMIN, c, d, r) IN
        out.res.success =>
            /\ Len(out.res.user) = 1
            /\ out.res.user[1].userType = "admin"

\* C24: where calls do not overlap, no phone has both a pending registration
\* and a user: the login that first yields a user for a phone consumes the
\* pending registration of the phone, also when the user was created by the
\* administrator's email login with the default admin phone.
C24_PendingOrUser ==
    \A p \in DOMAIN pendingRegistrations : ~HasUserWithPhone(p)

TWELVE_ADMIN == <<"9","1","9","0","6","0","3","2","8","1","1","9">>

\* C25: for every raw identifier that formatPhoneNumber maps to the admin
\* phone +919060328119 (the 12 digits with the country code, bare or spaced
\* with a +, the + form, and the 13 digits 0919060328119), authenticateAdmin
\* takes the phone branch and sends a code: it returns that the OTP was sent
\* and stores an entry and a session for the admin phone.
C25_AdminPhoneForms ==
    \A id \in {TWELVE_ADMIN, TWELVE_SPACED, RAW_ADMIN, RAW_ADMIN13}, pw \in Passwords,
       c \in Codes, r \in FreshRands :
        LET out == authenticateAdmin(id, pw, c, 0, r) IN
        /\ formatPhoneNumber(id) = DEFAULT_ADMIN_PHONE
        /\ LooksLikePhone(id)
        /\ out.res.success
        /\ out.res.otpSent
        /\ out.res.user = << >>
        /\ DEFAULT_ADMIN_PHONE \in DOMAIN out.otpStore
        /\ out.otpStore[DEFAULT_ADMIN_PHONE].code = c
        /\ DEFAULT_ADMIN_PHONE \in DOMAIN out.otpSessions

(* --------------------- the lifetime of a code -------------------------- *)

\* C26: where calls do not overlap, an entry and a session of one phone stem
\* from the same send, the latest for the phone: the session is stamped no
\* earlier than the entry was created, so the entry's expiresAt never lies
\* after the session's timestamp plus 5 minutes.  A verifyOTPAndLogin
\* succeeds only if the verifier is reached no later than 5 minutes after that
\* send stored the code (its expiresAt), however fresh the session is.
C26_FiveMinutes ==
    /\ \A p \in DOMAIN otpStore :
          /\ p \in DOMAIN issued
          /\ issued[p].latest = otpStore[p].code
          /\ p \in DOMAIN otpSessions =>
                /\ otpStore[p].expiresAt <= otpSessions[p].timestamp + 5 * 60 * 1000
                /\ otpSessions[p].timestamp <= now
    /\ \A ph \in PatientPhones, c \in Codes, d \in Delays(Instants), r \in FreshRands :
          LET p == formatPhoneNumber(ph)
              out == verifyOTPAndLogin(ph, c, d, r)
          IN out.res.success =>
                /\ p \in DOMAIN otpStore
                /\ p \in DOMAIN otpSessions
                /\ c = issued[p].latest
                /\ LET sentAt == otpStore[p].expiresAt - 5 * 60 * 1000 IN
                      /\ sentAt <= otpSessions[p].timestamp
                      /\ (now + d) - sentAt <= 5 * 60 * 1000
                      /\ now - otpSessions[p].timestamp <= 5 * 60 * 1000

\* a login succeeded at the last instant of the 5 minutes of a code that was
\* sent after the start
C26_Witness ==
    /\ IsVerify
    /\ last.success
    /\ last.vres = "approved"
    /\ now = OTP_TTL + MaxMs
    /\ issued[last.phone].prior # NoCode

(* --------------------- overlapping logins of one phone ----------------- *)

\* two verifyOTPAndLogin calls for one phone made before either has returned
VerifyPairs ==
    LET ph == RAW_TWELVE
        verify(code, r) == NewCall("verifyOTPAndLogin", ph, code, DraftFor(ph), NoCode, r)
    IN {<<verify(c1, r), verify(c2, r)>> : c1 \in Codes, c2 \in Codes, r \in FreshRands}

StartVerifies ==
    /\ calls = << >>
    /\ \E pair \in VerifyPairs :
          /\ calls' = pair
          /\ start' = <<[stores |-> Stores, calls |-> pair]>>
    /\ last' = NoCall("overlap")
    /\ UNCHANGED <<otpStore, otpSessions, pendingRegistrations, users, storage, now,
                   issued, sentSince, page>>

\* call i runs its next segment, whichever of the suspended calls it is: every
\* order in which two calls can be resumed
ResumeInAnyOrder(i) ==
    /\ i \in 1..Len(calls)
    /\ calls[i].pc # "done"
    /\ LET x == Step(Stores, calls[i], now) IN
          /\ otpStore' = x.S.otpStore
          /\ otpSessions' = x.S.otpSessions
          /\ pendingRegistrations' = x.S.pendingRegistrations
          /\ users' = x.S.users
          /\ storage' = x.S.storage
          /\ calls' = [calls EXCEPT ![i] = x.call]
    /\ UNCHANGED <<now, last, issued, sentSince, start, page>>

\* sends, registrations and logins of one phone, one at a time, and two
\* logins overlapping
NextVerifies ==
    \/ calls = << >> /\ \E c \in Codes : SendOTP(RAW_TWELVE, c, 0)
    \/ calls = << >> /\ \E c \in Codes, r \in FreshRands : VerifyOTPAndLogin(RAW_TWELVE, c, 0, r)
    \/ calls = << >> /\ RegisterUser(DraftFor(RAW_TWELVE), "100000", 0)
    \/ calls = << >> /\ ClearAllData
    \/ StartVerifies
    \/ \E i \in 1..2 : ResumeInAnyOrder(i)
    \/ Settle

SpecVerifies == Init /\ [][NextVerifies]_vars

\* C27: when two verifyOTPAndLogin calls for one phone overlap, in whatever
\* order their segments run, the verifier approves at most one of them and at
\* most one of them returns success, also when both submit the stored code;
\* they add at most one user to the directory, and the phone never has two users.
C27_ApprovedOnce ==
    /\ Cardinality({i \in 1..Len(users) : users[i].phone = CANON_TEN}) <= 1
    /\ Len(calls) = 2 =>
          /\ ~(calls[1].awaited.ok /\ calls[2].awaited.ok)
          /\ Len(users) <= Len(start[1].stores.users) + 1
          /\ Returned => ~(calls[1].res[1].success /\ calls[2].res[1].success)

\* two overlapping logins with the stored code have returned: the one that
\* began second succeeded with a new user, the other was refused
C27_Witness ==
    /\ Returned
    /\ calls[1].code = calls[2].code
    /\ ~calls[1].res[1].success
    /\ calls[1].res[1].error = ERR_OTP_EXPIRED
    /\ calls[2].res[1].success
    /\ Len(users) = 1
    /\ start[1].stores.users = << >>
    /\ CANON_TEN \in DOMAIN start[1].stores.pendingRegistrations
    /\ users[1].name = <<"Dr Rao">>

(* --------------------------- the verified flag ------------------------- *)

\* a user is verified exactly if a profile is stored in it
VerifiedHasProfile ==
    \A i \in 1..Len(users) : users[i].isVerified <=> users[i].abhaProfile # Undefined

\* a step that leaves a user verified who was not verified before is a
\* successful linkABHAProfile, and no step creates a verified user or takes
\* the flag from a user it keeps
OnlyLinkVerifies ==
    /\ \A j \in 1..Len(users') :
          users'[j].isVerified =>
             \E i \in 1..Len(users) :
                /\ users[i].id = users'[j].id
                /\ users[i].isVerified \/ (last'.op = "linkABHAProfile" /\ last'.success)
    /\ \A i \in 1..Len(users), j \in 1..Len(users') :
          (users[i].id = users'[j].id /\ users[i].isVerified) => users'[j].isVerified

\* C28: a user's isVerified is true if and only if linkABHAProfile has
\* succeeded for the user: users are created with isVerified = false, only a
\* successful linkABHAProfile sets it (storing the profile with it), and no
\* OTP login, administrator login or page load sets or resets it.
C28_VerifiedIffLinked == []VerifiedHasProfile /\ [][OnlyLinkVerifies]_vars

\* an OTP login has returned a user with a linked profile, who is still
\* verified, in a directory that holds an unverified administrator
C28_Witness ==
    /\ IsVerify
    /\ last.success
    /\ \E i, j \in 1..Len(users) :
          /\ users[i].phone = last.phone
          /\ users[i].userType = "patient"
          /\ users[i].isVerified
          /\ users[i].lastLogin = now
          /\ users[j].userType = "admin"
          /\ ~users[j].isVerified

(* ------------------------------ the login page ------------------------- *)

MSG_SHORT_PHONE == <<"Please enter a valid 10-digit phone number">>
MSG_ENTER_OTP == <<"Please enter 6-digit OTP.">>
MSG_SUCCESS == <<"Login successful! Welcome to EasyMed.">>
MSG_SEND_FIRST == <<"Please send OTP first">>
MSG_ADMIN_CREDENTIALS == <<"Please enter email and password for admin login">>
MSG_NO_EMAIL_LOGIN ==
    <<"Email login not available yet. Please use phone login with OTP verification.">>

\* what the user types into the fields
TypedPhones == {NINE, RAW_TWELVE}
TypedCodes == {"100000", "12345"}
TypedEmails == {<<"admin@easymed.in">>}
TypedPasswords == {"admin123"}

\* a handler that calls no service
PageOnly(page2) ==
    /\ page' = page2
    /\ last' = NoCall("page")
    /\ UNCHANGED <<otpStore, otpSessions, pendingRegistrations, users, storage, now,
                   issued, sentSince, calls, start>>

\* a handler that has awaited a service call
PageAfter(out, page2) ==
    /\ otpStore' = out.otpStore
    /\ otpSessions' = out.otpSessions
    /\ pendingRegistrations' = out.pendingRegistrations
    /\ users' = out.users
    /\ storage' = out.storage
    /\ now' = out.now
    /\ page' = page2
    /\ UNCHANGED <<calls, start>>

\* handleSendOTP; otp is the code the issuer draws, r the suffix of a new id
handleSendOTP(otp, r) ==
    LET p1 == [page EXCEPT !.handler = "handleSendOTP"] IN
    IF Len(page.phoneNumber) < 10
    THEN PageOnly([p1 EXCEPT !.message = MSG_SHORT_PHONE])
    ELSE LET out == IF page.activeTab = "admin"
                    THEN authenticateAdmin(page.phoneNumber, "", otp, 0, r)
                    ELSE sendOTP(page.phoneNumber, pendingRegistrations, otp, 0)
         IN /\ PageAfter(out,
                  IF out.res.success /\ out.res.otpSent
                  THEN [p1 EXCEPT !.showOTP = TRUE,
                                  !.message = <<"OTP sent to ">> \o page.phoneNumber
                                                  \o <<". Please check your SMS.">>]
                  ELSE [p1 EXCEPT !.message = <<OrElse(out.res.error, "Failed to send OTP")>>])
            /\ last' = Call(IF page.activeTab = "admin" THEN "authenticateAdmin" ELSE "sendOTP",
                            out.phone, NoCode, out)
            /\ IF out.res.otpSent THEN SendHistory(out, otp) ELSE UNCHANGED <<issued, sentSince>>

\* handleVerifyOTP; on success onLogin hands the user over to the parent
handleVerifyOTP(r) ==
    LET p1 == [page EXCEPT !.handler = "handleVerifyOTP"] IN
    IF page.otp = "" \/ Len(CodeChars(page.otp)) # 6
    THEN PageOnly([p1 EXCEPT !.message = MSG_ENTER_OTP])
    ELSE LET out == verifyOTPAndLogin(page.phoneNumber, page.otp, 0, r) IN
         /\ PageAfter(out,
               IF out.res.success /\ out.res.user # << >>
               THEN [p1 EXCEPT !.message = MSG_SUCCESS, !.loggedIn = TRUE]
               ELSE [p1 EXCEPT !.message = <<OrElse(out.res.error, "OTP verification failed")>>])
         /\ last' = Call("verifyOTPAndLogin", out.phone, page.otp, out)
         /\ sentSince' = IF out.res.success
                            \/ (out.res.error = ERR_SESSION_EXPIRED /\ out.vres = "not_called")
                         THEN sentSince \ {out.phone} ELSE sentSince
         /\ UNCHANGED issued

\* handleLogin
handleLogin(r) ==
    LET p1 == [page EXCEPT !.handler = "handleLogin"] IN
    IF page.activeTab = "admin"
    THEN IF page.loginMethod = "email" /\ page.email # << >> /\ page.password # ""
         THEN LET out == authenticateAdmin(page.email, page.password, "100000", 0, r) IN
              /\ PageAfter(out,
                    IF out.res.success /\ out.res.user # << >>
                    THEN [p1 EXCEPT !.message = MSG_SUCCESS, !.loggedIn = TRUE]
                    ELSE [p1 EXCEPT !.message =
                                       <<OrElse(out.res.error, "Admin authentication failed")>>])
              /\ last' = Call("authenticateAdmin", out.phone, NoCode, out)
              /\ UNCHANGED <<issued, sentSince>>
         ELSE PageOnly([p1 EXCEPT !.message = MSG_ADMIN_CREDENTIALS])
    ELSE IF page.loginMethod = "phone"
         THEN IF ~page.showOTP
              THEN PageOnly([p1 EXCEPT !.message = MSG_SEND_FIRST])
              ELSE handleVerifyOTP(r)
         ELSE IF page.email # << >> /\ page.password # ""
              THEN PageOnly([p1 EXCEPT !.message = MSG_NO_EMAIL_LOGIN])
              ELSE PageOnly(p1)

\* the user picks a role or a login method, or types into a field that is shown
SetActiveTab(tab) ==
    ~page.loggedIn /\ tab # page.activeTab /\ PageOnly([page EXCEPT !.activeTab = tab])
SetLoginMethod(method) ==
    ~page.loggedIn /\ method # page.loginMethod /\ PageOnly([page EXCEPT !.loginMethod = method])
SetPhoneNumber(ph) ==
    /\ ~page.loggedIn /\ page.loginMethod = "phone" /\ ph # page.phoneNumber
    /\ PageOnly([page EXCEPT !.phoneNumber = ph])
SetOtp(code) ==
    /\ ~page.loggedIn /\ page.loginMethod = "phone" /\ page.showOTP /\ code # page.otp
    /\ PageOnly([page EXCEPT !.otp = code])
SetEmail(e) ==
    /\ ~page.loggedIn /\ page.loginMethod = "email" /\ e # page.email
    /\ PageOnly([page EXCEPT !.email = e])
SetPassword(pw) ==
    /\ ~page.loggedIn /\ page.loginMethod = "email" /\ pw # page.password
    /\ PageOnly([page EXCEPT !.password = pw])

\* the button of the phone form: onClick={showOTP ? handleVerifyOTP : handleSendOTP}
ClickPhoneButton(otp, r) ==
    /\ ~page.loggedIn
    /\ page.loginMethod = "phone"
    /\ IF page.showOTP THEN handleVerifyOTP(r) ELSE handleSendOTP(otp, r)

\* the button of the email form, disabled without an email and a password
ClickEmailButton(r) ==
    /\ ~page.loggedIn
    /\ page.loginMethod = "email"
    /\ page.email # << >>
    /\ page.password # ""
    /\ handleLogin(r)

\* handleKeyPress for the Enter key, in any field that is shown
handleKeyPress(otp, r) ==
    /\ ~page.loggedIn
    /\ IF page.showOTP THEN handleVerifyOTP(r)
       ELSE IF page.loginMethod = "phone" /\ page.phoneNumber # << >>
       THEN handleSendOTP(otp, r)
       ELSE page.loginMethod = "email" /\ page.email # << >> /\ page.password # ""
            /\ handleLogin(r)

\* the timer that clears the message
ClearMessage ==
    /\ page.message # << >>
    /\ PageOnly([page EXCEPT !.message = << >>])

\* one LoginPage from the moment it is mounted: what the user can do to it,
\* and time passing
NextPage ==
    \/ \E tab \in {"patient", "admin"} : SetActiveTab(tab)
    \/ \E method \in {"phone", "email"} : SetLoginMethod(method)
    \/ \E ph \in TypedPhones : SetPhoneNumber(ph)
    \/ \E code \in TypedCodes : SetOtp(code)
    \/ \E e \in TypedEmails : SetEmail(e)
    \/ \E pw \in TypedPasswords : SetPassword(pw)
    \/ \E r \in FreshRands : ClickPhoneButton("100000", r)
    \/ \E r \in FreshRands : ClickEmailButton(r)
    \/ \E r \in FreshRands : handleKeyPress("100000", r)
    \/ ClearMessage
    \/ Tick(Instants)

SpecPage == Init /\ [][NextPage]_vars

\* the page keeps being used: as long as some control can be used or time can
\* pass, a step is taken
SpecPageFair == SpecPage /\ WF_vars(NextPage)

\* the OTP field is shown and the last verification was refused for an
\* expired or missing session
SessionLost ==
    /\ page.showOTP
    /\ page.handler = "handleVerifyOTP"
    /\ page.message \in {<<ERR_NO_SESSION>>, <<ERR_SESSION_EXPIRED>>}

\* once the OTP field is shown, no step of the page runs handleSendOTP
NoSendOnceShown ==
    (page.showOTP /\ page'.handler # page.handler) => page'.handler # "handleSendOTP"

\* no behaviour of the page runs handleSendOTP after the OTP field is shown
PageNeverResends == [][NoSendOnceShown]_vars

\* C29: in the login page, once the OTP field is shown, whenever a
\* verification was refused for an expired or missing session, the page that
\* keeps being used gets to run handleSendOTP again, without a reload (unless
\* the user has logged in by another way and left the page).
C29_CanResend == SessionLost ~> (page.handler = "handleSendOTP" \/ page.loggedIn)

(* ------------------- the normalizer and the issuer --------------------- *)

\* what formatPhoneNumber returns passes isValidPhoneNumber, so
\* TwilioService.sendOTP stores a code for it and sendOTP returns that the OTP
\* was sent
NormalizedIsSent(raw, c) ==
    LET p == formatPhoneNumber(raw)
        sent == sendOTP(raw, pendingRegistrations, c, 0)
    IN /\ isValidPhoneNumber(p)
       /\ TwilioSendOTP(otpStore, p, c, now).status = "pending"
       /\ sent.res = Result(TRUE, Undefined, TRUE, << >>)
       /\ sent.otpStore[p].code = c
       /\ p \in DOMAIN sent.otpSessions

\* registerUser has sent a code and left the draft, an entry and a session
RegisteredAndSent(out, p, c) ==
    /\ out.res = Result(TRUE, Undefined, TRUE, << >>)
    /\ p \in DOMAIN out.pendingRegistrations
    /\ p \in DOMAIN out.otpStore
    /\ out.otpStore[p].code = c
    /\ p \in DOMAIN out.otpSessions

\* C30 as stated: every value formatPhoneNumber returns passes the issuer's
\* check, and a sendOTP or a registerUser with a phone that formatPhoneNumber
\* accepts always returns that the OTP was sent, the registerUser leaving
\* the draft together with an entry and a session of the phone.
C30_AlwaysSent ==
    \A raw \in RawForms, c \in Codes :
        formatPhoneNumber(raw) # Null =>
            /\ NormalizedIsSent(raw, c)
            /\ RegisteredAndSent(registerUser(DraftFor(raw), c, 0), formatPhoneNumber(raw), c)

\* C30 amended: every value formatPhoneNumber returns passes the issuer's
\* check, so a sendOTP with a phone that formatPhoneNumber accepts always
\* returns that the OTP was sent; a registerUser with such a phone does so,
\* leaving the draft together with an entry and a session of the phone,
\* unless the directory holds a user with the phone: then it fails with the
\* already-exists message and stores no draft.
C30_SentUnlessExists ==
    \A raw \in RawForms, c \in Codes :
        LET p == formatPhoneNumber(raw)
            out == registerUser(DraftFor(raw), c, 0)
        IN p # Null =>
            /\ NormalizedIsSent(raw, c)
            /\ ~HasUserWithPhone(p) => RegisteredAndSent(out, p, c)
            /\ HasUserWithPhone(p) =>
                  /\ out.res = Fail("User already exists with this phone number")
                  /\ out.pendingRegistrations = pendingRegistrations
                  /\ out.otpStore = otpStore
                  /\ out.otpSessions = otpSessions

\* a registerUser has sent a code for one number while the directory holds a
\* user with the other, for which a registerUser is refused
C30_Witness ==
    /\ last.op = "registerUser"
    /\ last.success
    /\ last.phone \in DOMAIN pendingRegistrations
    /\ last.phone \in DOMAIN otpStore
    /\ last.phone \in DOMAIN otpSessions
    /\ ~HasUserWithPhone(last.phone)
    /\ Len(users) > 0

====
